---- MODULE Spec2Model ----
(***************************************************************************)
(* State-machine model of the ROFFLE bot server (src/server.js, the later  *)
(* revision at lines 407-1342, plus the earlier /spin at lines 266-322).   *)
(*                                                                         *)
(* The store (Supabase tables roff_users, roff_referrals, roff_inventory)  *)
(* is shared state.  Every request is an asynchronous task; a task is      *)
(* suspended at every await, so each store call is one atomic step and the *)
(* synchronous code between two awaits belongs to the step that precedes   *)
(* or follows it.  A store call returns either a result or an error        *)
(* object (supabase-js does not throw).                                    *)
(***************************************************************************)
EXTENDS Integers, Sequences, FiniteSets, TLC

VARIABLES
  arr,        \* the array buildSlots fills; after start-up it is `slots`
  boot,       \* position of module initialisation inside buildSlots
  users,      \* roff_users: tg_id -> row or NoRow
  referrals,  \* roff_referrals: <<referrer, referred>> -> number of rows
  inventory,  \* roff_inventory: <<tg_id, item_type, item_id>> -> number of rows
  uniq,       \* whether roff_referrals / roff_inventory carry a unique index
  tasks,      \* the request tasks in flight: task id -> task record
  started,    \* number of requests started so far
  anyFail,    \* history: some store call has returned an error
  users0,     \* history: roff_users at start-up
  ledger,     \* history: per account, the deltas acknowledged as applied
  granted,    \* history: per payment charge, the grants written for it
  rewarded    \* history: per referral pair, the reward writes done per side

vars == <<arr, boot, users, referrals, inventory, uniq, tasks, started,
          anyFail, users0, ledger, granted, rewarded>>

(***************************************************************************)
(* Bounds of the model.                                                    *)
(***************************************************************************)
MaxSpinRequests == 1     \* /spin requests of the sequential spin specification
MaxConcRequests == 2     \* requests per run of the concurrent specifications
MaxSeqRequests == 2      \* handler calls per run of the sequential specifications

(***************************************************************************)
(* Wheel configuration.                                                    *)
(***************************************************************************)
SEGMENTS_TOTAL == 25

TierNames == {"free", "plus", "pro", "prem"}

\* TIER_MULT[k]; 0 stands for `undefined` (a key the object does not have).
TIER_MULT(k) ==
  CASE k = "free" -> 1
    [] k = "plus" -> 2
    [] k = "pro"  -> 3
    [] k = "prem" -> 5
    [] OTHER      -> 0

\* TIER_CAP[k]; 0 stands for `undefined`.
TIER_CAP(k) ==
  CASE k = "free" -> 20
    [] k = "plus" -> 40
    [] k = "pro"  -> 60
    [] k = "prem" -> 100
    [] OTHER      -> 0

BundleIds == {"mini", "medi", "maxi"}

\* BUNDLE_CONFIG[id] (title and description are not modelled).
BUNDLE_CONFIG(id) ==
  CASE id = "mini" -> [stars |-> 299,  rof |-> 20000,  spins |-> 100, tickets |-> 1]
    [] id = "medi" -> [stars |-> 599,  rof |-> 50000,  spins |-> 250, tickets |-> 2]
    [] id = "maxi" -> [stars |-> 1199, rof |-> 125000, spins |-> 500, tickets |-> 3]

(***************************************************************************)
(* buildSlots.  A cell of the array is null (empty) or {amount: n}.        *)
(***************************************************************************)
NullSlot == [empty |-> TRUE, amount |-> 0]
Slot(amt) == [empty |-> FALSE, amount |-> amt]

\* Array(SEGMENTS_TOTAL).fill(null)
EmptyArr == [i \in 0 .. (SEGMENTS_TOTAL - 1) |-> NullSlot]

\* The put() calls of buildSlots, in order.
PutCalls ==
  << [idxs |-> <<2, 4, 6, 8, 10, 12, 14, 16, 18, 20, 22, 24>>, amt |-> 1],
     [idxs |-> <<3, 7, 11, 15, 19, 23>>, amt |-> 2],
     [idxs |-> <<5, 9, 13>>, amt |-> 5],
     [idxs |-> <<17, 25>>, amt |-> 20],
     [idxs |-> <<21>>, amt |-> 50] >>

PutIndexOffByOne(n) == n

\* const i = n - 1
PutIndex(n) == n - 1

\* One iteration of put's forEach: if (!arr[i]) arr[i] = { amount: amt }.
\* An index past the end reads undefined and the assignment grows the array.
PutOne(a, n, amt) ==
  LET i == PutIndex(n) IN
    IF i \notin DOMAIN a THEN (i :> Slot(amt)) @@ a
    ELSE IF a[i].empty THEN [a EXCEPT ![i] = Slot(amt)]
    ELSE a

RECURSIVE PutFrom(_, _, _, _)
PutFrom(a, idxs, k, amt) ==
  IF k > Len(idxs) THEN a ELSE PutFrom(PutOne(a, idxs[k], amt), idxs, k + 1, amt)

RECURSIVE PutCallsFrom(_, _)
PutCallsFrom(a, c) ==
  IF c > Len(PutCalls) THEN a
  ELSE PutCallsFrom(PutFrom(a, PutCalls[c].idxs, 1, PutCalls[c].amt), c + 1)

\* buildSlots() run to completion.
BuildSlots == PutCallsFrom([EmptyArr EXCEPT ![0] = Slot(100)], 1)

\* Module initialisation, step by step: call 0 is `arr[0] = { amount: 100 }`,
\* call c >= 1 is the c-th put(), k the element of its list handled next.
BootStart == [call |-> 0, k |-> 1]
Booted == [call |-> Len(PutCalls) + 1, k |-> 1]

BootAssign ==
  /\ boot = BootStart
  /\ arr' = [arr EXCEPT ![0] = Slot(100)]
  /\ boot' = [call |-> 1, k |-> 1]
  /\ UNCHANGED <<users, referrals, inventory, uniq, tasks, started,
                 anyFail, users0, ledger, granted, rewarded>>

BootPut ==
  /\ boot.call \in 1 .. Len(PutCalls)
  /\ LET c == PutCalls[boot.call] IN
       /\ arr' = PutOne(arr, c.idxs[boot.k], c.amt)
       /\ boot' = IF boot.k < Len(c.idxs)
                    THEN [boot EXCEPT !.k = boot.k + 1]
                    ELSE [call |-> boot.call + 1, k |-> 1]
  /\ UNCHANGED <<users, referrals, inventory, uniq, tasks, started,
                 anyFail, users0, ledger, granted, rewarded>>

\* slots[index].amount || 0
SlotAmount(index) ==
  IF index \in DOMAIN arr /\ ~arr[index].empty THEN arr[index].amount ELSE 0

(***************************************************************************)
(* Values.                                                                 *)
(***************************************************************************)
Nil == [nil |-> TRUE]
NoRow == [exists |-> FALSE]

\* The row getOrCreateUser inserts; golden_tickets is left to the column
\* default, which every reader takes as 0 (`?? 0`).
DefaultUser ==
  [balance |-> 0, spins_left |-> 20, premium_tier |-> "free", invites |-> 0,
   golden_tickets |-> 0]

\* A JSON value of a request body, as far as the handlers tell them apart:
\* a number is kept in tenths so that Math.floor has something to do.
Undefined == [type |-> "undefined", tenths |-> 0]
Str(n) == [type |-> "string", tenths |-> 10 * n]
Num(n) == [type |-> "number", tenths |-> 10 * n]
NumTenths(x) == [type |-> "number", tenths |-> x]

Resp(status, body) == [status |-> status, body |-> body]
Err(status, error) == Resp(status, [ok |-> FALSE, error |-> error])

IdleTask ==
  [op |-> "idle", pc |-> "idle", req |-> Nil, loc |-> Nil, resp |-> Nil,
   nCalls |-> 0, nUpdates |-> 0, upd |-> "none"]

NewTask(op, pc, req) ==
  [op |-> op, pc |-> pc, req |-> req, loc |-> Nil, resp |-> Nil,
   nCalls |-> 0, nUpdates |-> 0, upd |-> "none"]

\* A handler that answers before its first await.
Answered(op, req, resp) ==
  [op |-> op, pc |-> "done", req |-> req, loc |-> Nil, resp |-> resp,
   nCalls |-> 0, nUpdates |-> 0, upd |-> "none"]

Free(t) == tasks[t].pc \in {"idle", "done"}
Quiescent == \A t \in DOMAIN tasks : Free(t)

\* One more store call by task record r.
Called(r) == [r EXCEPT !.nCalls = @ + 1]

\* The task ends with response resp.
Finish(r, resp) == [r EXCEPT !.pc = "done", !.resp = resp]

\* History: task record r issues an update of roff_users, with this outcome.
Updating(r, outcome) ==
  [r EXCEPT !.nCalls = @ + 1, !.nUpdates = @ + 1, !.upd = outcome]

(***************************************************************************)
(* Store primitives.                                                       *)
(***************************************************************************)
\* .update(fields).eq("tg_id", id): changes the row when there is one.
UpdateUser(u, id, fields) ==
  IF id \in DOMAIN u /\ u[id] # NoRow
    THEN [u EXCEPT ![id] = [f \in DOMAIN u[id] |->
                              IF f \in DOMAIN fields THEN fields[f] ELSE u[id][f]]]
    ELSE u

HasUser(id) == id \in DOMAIN users /\ users[id] # NoRow

ZeroDelta == [balance |-> 0, spins_left |-> 0, golden_tickets |-> 0]

\* History: the handler acknowledged deltas (b, s, g) on account id.
Acked(l, id, b, s, g) ==
  [l EXCEPT ![id] = [balance |-> @.balance + b, spins_left |-> @.spins_left + s,
                     golden_tickets |-> @.golden_tickets + g]]

bootVars == <<arr, boot>>
histVars == <<users0, ledger, granted, rewarded>>

(***************************************************************************)
(* getOrCreateUser (lines 576-612), called by /spin, /bundle/apply and     *)
(* /reward/apply.  It throws on a store error; each caller's catch answers *)
(* 500 server_error.                                                       *)
(***************************************************************************)
GocCallers == {"spin", "spinV1", "bundle", "reward"}

GetOrCreateUserSelect(t) ==
  /\ tasks[t].pc = "goc_select"
  /\ tasks[t].op \in GocCallers
  /\ LET r == Called(tasks[t])
         id == tasks[t].req.tg_id IN
       \/ \* if (error) throw error
          /\ tasks' = [tasks EXCEPT ![t] = Finish(r, Err(500, "server_error"))]
          /\ anyFail' = TRUE
       \/ \* if (data) return data, else go on to the insert
          /\ tasks' = [tasks EXCEPT ![t] =
                         IF HasUser(id)
                           THEN [r EXCEPT !.pc = "have_user",
                                          !.loc = [user |-> users[id]]]
                           ELSE [r EXCEPT !.pc = "goc_insert"]]
          /\ UNCHANGED anyFail
  /\ UNCHANGED <<bootVars, users, referrals, inventory, uniq, started, histVars>>

GetOrCreateUserInsert(t) ==
  /\ tasks[t].pc = "goc_insert"
  /\ LET r == Called(tasks[t])
         id == tasks[t].req.tg_id IN
       \/ \* the insert returns a store error: throw insErr
          /\ tasks' = [tasks EXCEPT ![t] = Finish(r, Err(500, "server_error"))]
          /\ anyFail' = TRUE
          /\ UNCHANGED users
       \/ \* tg_id is unique (the upsert of /user/sync names it as its
          \* conflict target): a row inserted since the select makes this
          \* insert fail, throw insErr
          /\ HasUser(id)
          /\ tasks' = [tasks EXCEPT ![t] = Finish(r, Err(500, "server_error"))]
          /\ UNCHANGED <<users, anyFail>>
       \/ /\ ~HasUser(id)
          /\ users' = [users EXCEPT ![id] = DefaultUser]
          /\ tasks' = [tasks EXCEPT ![t] =
                         [r EXCEPT !.pc = "have_user",
                                   !.loc = [user |-> DefaultUser]]]
          /\ UNCHANGED anyFail
  /\ UNCHANGED <<bootVars, referrals, inventory, uniq, started, histVars>>

(***************************************************************************)
(* POST /spin (lines 905-974).                                             *)
(***************************************************************************)
\* const allowed = [1, 5, 10, 20, 50]
AllowedTurbo == {1, 5, 10, 20, 50}

\* Math.floor of a number kept in tenths.
Floor(x) == x \div 10

\* A variant that compares the number as it is, without Math.floor.
TurboNoFloor(v) ==
  IF v.type = "number" /\ v.tenths % 10 = 0 /\ (v.tenths \div 10) \in AllowedTurbo
    THEN v.tenths \div 10
    ELSE 1

\* let turbo = 1; if (typeof turboMult === "number") { const t =
\* Math.floor(turboMult); turbo = allowed.includes(t) ? t : 1; }
Turbo(v) ==
  IF v.type = "number"
    THEN (IF Floor(v.tenths) \in AllowedTurbo THEN Floor(v.tenths) ELSE 1)
    ELSE 1

NoSpinsOnlyAtZero(availableSpins, turbo) == availableSpins <= 0

\* if (availableSpins < turbo)
NoSpins(availableSpins, turbo) == availableSpins < turbo

\* user.premium_tier && TIER_MULT[user.premium_tier] ? user.premium_tier : "free"
TierKey(tier) == IF tier # "" /\ TIER_MULT(tier) # 0 THEN tier ELSE "free"

PrizeIgnoresTurbo(base, tierMult, turbo) == base * tierMult

\* const perSpinPrize = base * tierMult; const prize = perSpinPrize * turbo
Prize(base, tierMult, turbo) == (base * tierMult) * turbo

\* randInt(min, max): crypto.randomInt(min, max + 1), any value of min..max
RandInt(min, max) == min .. max

SpinStart(t, maxRequests, tgIds, turboMults) ==
  /\ boot = Booted
  /\ Free(t)
  /\ started < maxRequests
  /\ started' = started + 1
  /\ \E tg \in tgIds, tm \in turboMults :
       LET req == [tg_id |-> tg, turboMult |-> tm] IN
         tasks' = [tasks EXCEPT ![t] =
                     IF tg = 0   \* if (!tg_id)
                       THEN Answered("spin", req, Err(400, "missing_tg_id"))
                       ELSE NewTask("spin", "goc_select", req)]
  /\ UNCHANGED <<bootVars, users, referrals, inventory, uniq, anyFail, histVars>>

\* From getOrCreateUser's return to the issue of the update: synchronous.
SpinResolve(t, draws) ==
  /\ tasks[t].pc = "have_user"
  /\ tasks[t].op = "spin"
  /\ LET r == tasks[t]
         user == r.loc.user
         availableSpins == user.spins_left
         turbo == Turbo(r.req.turboMult)
         tierMult == TIER_MULT(TierKey(user.premium_tier)) IN
       \/ /\ NoSpins(availableSpins, turbo)
          /\ tasks' = [tasks EXCEPT ![t] = Finish(r, Err(200, "no_spins"))]
       \/ /\ ~NoSpins(availableSpins, turbo)
          /\ \E index \in draws \cap RandInt(0, SEGMENTS_TOTAL - 1) :
               tasks' = [tasks EXCEPT ![t] =
                 IF arr[index].empty   \* slots[index].amount throws
                   THEN Finish(r, Err(500, "server_error"))
                   ELSE LET prize == Prize(SlotAmount(index), tierMult, turbo) IN
                     [r EXCEPT !.pc = "spin_update",
                               !.loc = [user |-> user, turbo |-> turbo,
                                        index |-> index, prize |-> prize,
                                        newBalance |-> user.balance + prize,
                                        newSpins |-> availableSpins - turbo]]]
  /\ UNCHANGED <<bootVars, users, referrals, inventory, uniq, started, anyFail,
                 histVars>>

SpinOk(l) ==
  Resp(200, [ok |-> TRUE, index |-> l.index, prize |-> l.prize,
             balance |-> l.newBalance, spins_left |-> l.newSpins])

SpinUpdateErrorIgnored(l) == SpinOk(l)

\* if (upErr) return res.status(500).json({ ok: false, error: "db_update_failed" })
SpinUpdateError(l) == Err(500, "db_update_failed")

SpinUpdate(t) ==
  /\ tasks[t].pc = "spin_update"
  /\ LET l == tasks[t].loc
         id == tasks[t].req.tg_id IN
       \/ /\ tasks' = [tasks EXCEPT ![t] =
                         Finish(Updating(@, "error"), SpinUpdateError(l))]
          /\ anyFail' = TRUE
          /\ UNCHANGED <<users, ledger>>
       \/ /\ users' = UpdateUser(users, id, [balance |-> l.newBalance,
                                             spins_left |-> l.newSpins])
          /\ tasks' = [tasks EXCEPT ![t] = Finish(Updating(@, "ok"), SpinOk(l))]
          /\ ledger' = Acked(ledger, id, l.prize, 0 - l.turbo, 0)
          /\ UNCHANGED anyFail
  /\ UNCHANGED <<bootVars, referrals, inventory, uniq, started, users0, granted, rewarded>>

(***************************************************************************)
(* POST /spin, earlier revision (lines 266-322): one spin per request.     *)
(***************************************************************************)
SpinV1Start(t, maxRequests, tgIds) ==
  /\ boot = Booted
  /\ Free(t)
  /\ started < maxRequests
  /\ started' = started + 1
  /\ \E tg \in tgIds :
       LET req == [tg_id |-> tg] IN
         tasks' = [tasks EXCEPT ![t] =
                     IF tg = 0   \* if (!tg_id)
                       THEN Answered("spinV1", req, Err(400, "missing_tg_id"))
                       ELSE NewTask("spinV1", "goc_select", req)]
  /\ UNCHANGED <<bootVars, users, referrals, inventory, uniq, anyFail, histVars>>

NoSpinsV1Negative(spins_left) == spins_left < 0

\* if ((user.spins_left ?? 0) <= 0)
NoSpinsV1(spins_left) == spins_left <= 0

SpinV1Resolve(t, draws) ==
  /\ tasks[t].pc = "have_user"
  /\ tasks[t].op = "spinV1"
  /\ LET r == tasks[t]
         user == r.loc.user
         mult == TIER_MULT(TierKey(user.premium_tier)) IN
       \/ /\ NoSpinsV1(user.spins_left)
          /\ tasks' = [tasks EXCEPT ![t] = Finish(r, Err(200, "no_spins"))]
       \/ /\ ~NoSpinsV1(user.spins_left)
          /\ \E index \in draws \cap RandInt(0, SEGMENTS_TOTAL - 1) :
               tasks' = [tasks EXCEPT ![t] =
                 IF arr[index].empty   \* slots[index].amount throws
                   THEN Finish(r, Err(500, "server_error"))
                   ELSE LET prize == SlotAmount(index) * mult IN
                     [r EXCEPT !.pc = "spinV1_update",
                               !.loc = [user |-> user, turbo |-> 1,
                                        index |-> index, prize |-> prize,
                                        newBalance |-> user.balance + prize,
                                        newSpins |-> user.spins_left - 1]]]
  /\ UNCHANGED <<bootVars, users, referrals, inventory, uniq, started, anyFail,
                 histVars>>

SpinV1Update(t) ==
  /\ tasks[t].pc = "spinV1_update"
  /\ LET l == tasks[t].loc
         id == tasks[t].req.tg_id IN
       \/ \* if (upErr)
          /\ tasks' = [tasks EXCEPT ![t] =
                         Finish(Updating(@, "error"), Err(500, "db_update_failed"))]
          /\ anyFail' = TRUE
          /\ UNCHANGED <<users, ledger>>
       \/ /\ users' = UpdateUser(users, id, [balance |-> l.newBalance,
                                             spins_left |-> l.newSpins])
          /\ tasks' = [tasks EXCEPT ![t] = Finish(Updating(@, "ok"), SpinOk(l))]
          /\ ledger' = Acked(ledger, id, l.prize, 0 - 1, 0)
          /\ UNCHANGED anyFail
  /\ UNCHANGED <<bootVars, referrals, inventory, uniq, started, users0, granted, rewarded>>

(***************************************************************************)
(* Domains of the model.                                                   *)
(***************************************************************************)
Ids == {1, 2}                 \* Telegram ids of the accounts
Pairs == {p \in Ids \X Ids : TRUE}
ItemTypes == {"wheel", "bg"}
ItemIds == {"neon"}
Items == Ids \X ItemTypes \X ItemIds
\* telegram_payment_charge_id of the successful_payment messages
Charges == {"ch1", "ch2", "ch3", "ch4", "ch5", "ch6", "ch7"}

AllDraws == 0 .. (SEGMENTS_TOTAL - 1)

\* Request values of turboMult: absent, a string, the allowed numbers, and
\* numbers that are not allowed (0, -1, 7, 5.5, 50.9, 0.5).
TurboInputs ==
  {Undefined, Str(5)} \cup {Num(n) : n \in AllowedTurbo \cup {0, 0 - 1, 7}}
    \cup {NumTenths(x) : x \in {55, 509, 5}}

\* premium_tier values a row can hold: the four tiers, null ("") and a key
\* /tier/apply accepted that TIER_MULT does not have.
TierValues == TierNames \cup {"", "gold"}

UserRow(b, s, tier) ==
  [DefaultUser EXCEPT !.balance = b, !.spins_left = s, !.premium_tier = tier]

NoUsers == [i \in Ids |-> NoRow]
NoCounts(S) == [x \in S |-> 0]

InitStore(U) ==
  /\ users \in U
  /\ users0 = users
  /\ referrals = NoCounts(Pairs)
  /\ inventory = NoCounts(Items)
  /\ started = 0
  /\ anyFail = FALSE
  /\ ledger = [i \in Ids |-> ZeroDelta]
  /\ granted = NoCounts(Charges)
  /\ rewarded = [p \in Pairs |-> [referrer |-> 0, referred |-> 0]]

(***************************************************************************)
(* SpecSpin: module start-up, then /spin requests handled one at a time,   *)
(* over every segment, tier and turboMult value.                           *)
(***************************************************************************)
SpinRows ==
  {NoRow} \cup {UserRow(1000, s, tier) : s \in {0 - 1, 0, 7, 60}, tier \in TierValues}

InitSpin ==
  /\ arr = EmptyArr
  /\ boot = BootStart
  /\ uniq = TRUE
  /\ tasks = [t \in {1} |-> IdleTask]
  /\ InitStore({[NoUsers EXCEPT ![1] = row] : row \in SpinRows})

NextSpin ==
  \/ BootAssign
  \/ BootPut
  \/ \E t \in DOMAIN tasks : SpinStart(t, MaxSpinRequests, {0, 1}, TurboInputs)
  \/ \E t \in DOMAIN tasks : SpinV1Start(t, MaxSpinRequests, {0, 1})
  \/ \E t \in DOMAIN tasks : GetOrCreateUserSelect(t)
  \/ \E t \in DOMAIN tasks : GetOrCreateUserInsert(t)
  \/ \E t \in DOMAIN tasks : SpinResolve(t, AllDraws)
  \/ \E t \in DOMAIN tasks : SpinV1Resolve(t, AllDraws)
  \/ \E t \in DOMAIN tasks : SpinUpdate(t)
  \/ \E t \in DOMAIN tasks : SpinV1Update(t)

SpecSpin == InitSpin /\ [][NextSpin]_vars

(***************************************************************************)
(* SpecSpinConc: /spin requests (both revisions) on one account, handled   *)
(* concurrently by two tasks.                                              *)
(***************************************************************************)
ConcSpinRows ==
  {NoRow} \cup {UserRow(0, s, tier) : s \in {0 - 1, 1, 6}, tier \in {"free", "prem"}}

ConcDraws == {0, 1}
ConcTurboInputs == {Num(1), Num(5)}

\* Start-up is over: const slots = buildSlots() has run.
InitBooted ==
  /\ arr = BuildSlots
  /\ boot = Booted

InitSpinConc ==
  /\ InitBooted
  /\ uniq = TRUE
  /\ tasks = [t \in {1, 2} |-> IdleTask]
  /\ InitStore({[NoUsers EXCEPT ![1] = row] : row \in ConcSpinRows})

NextSpinConc ==
  \/ \E t \in DOMAIN tasks : SpinStart(t, MaxConcRequests, {1}, ConcTurboInputs)
  \/ \E t \in DOMAIN tasks : SpinV1Start(t, MaxConcRequests, {1})
  \/ \E t \in DOMAIN tasks : GetOrCreateUserSelect(t)
  \/ \E t \in DOMAIN tasks : GetOrCreateUserInsert(t)
  \/ \E t \in DOMAIN tasks : SpinResolve(t, ConcDraws)
  \/ \E t \in DOMAIN tasks : SpinV1Resolve(t, ConcDraws)
  \/ \E t \in DOMAIN tasks : SpinUpdate(t)
  \/ \E t \in DOMAIN tasks : SpinV1Update(t)

SpecSpinConc == InitSpinConc /\ [][NextSpinConc]_vars

(***************************************************************************)
(* POST /reward/apply (lines 1154-1213).                                   *)
(***************************************************************************)
\* typeof x === "number" ? x : 0   (the model draws whole numbers only)
NumberOrZero(v) == IF v.type = "number" THEN v.tenths \div 10 ELSE 0

RewardStart(t, maxRequests, tgIds, adds) ==
  /\ boot = Booted
  /\ Free(t)
  /\ started < maxRequests
  /\ started' = started + 1
  /\ \E tg \in tgIds, a \in adds :
       LET req == [tg_id |-> tg, rofAdd |-> a[1], spinsAdd |-> a[2],
                   ticketsAdd |-> a[3]]
           r == NumberOrZero(req.rofAdd)
           s == NumberOrZero(req.spinsAdd)
           g == NumberOrZero(req.ticketsAdd) IN
         tasks' = [tasks EXCEPT ![t] =
           IF tg = 0   \* if (!tg_id)
             THEN Answered("reward", req, Err(400, "missing_tg_id"))
           ELSE IF r = 0 /\ s = 0 /\ g = 0   \* if (!r && !s && !t)
             THEN Answered("reward", req,
                           Resp(200, [ok |-> TRUE, balance |-> Nil,
                                      spins_left |-> Nil, golden_tickets |-> Nil]))
           ELSE NewTask("reward", "goc_select", req)]
  /\ UNCHANGED <<bootVars, users, referrals, inventory, uniq, anyFail, histVars>>

\* From getOrCreateUser's return to the issue of the update: synchronous.
RewardResolve(t) ==
  /\ tasks[t].pc = "have_user"
  /\ tasks[t].op = "reward"
  /\ LET r == tasks[t]
         user == r.loc.user IN
       tasks' = [tasks EXCEPT ![t] =
         [r EXCEPT !.pc = "reward_update",
                   !.loc = [user |-> user,
                            newBalance |-> user.balance + NumberOrZero(r.req.rofAdd),
                            newSpins |-> user.spins_left + NumberOrZero(r.req.spinsAdd),
                            newTickets |-> user.golden_tickets
                                             + NumberOrZero(r.req.ticketsAdd)]]]
  /\ UNCHANGED <<bootVars, users, referrals, inventory, uniq, started, anyFail,
                 histVars>>

RewardUpdate(t) ==
  /\ tasks[t].pc = "reward_update"
  /\ LET l == tasks[t].loc
         q == tasks[t].req
         id == tasks[t].req.tg_id IN
       \/ \* if (upErr)
          /\ tasks' = [tasks EXCEPT ![t] =
                         Finish(Updating(@, "error"), Err(500, "db_error"))]
          /\ anyFail' = TRUE
          /\ UNCHANGED <<users, ledger>>
       \/ /\ users' = UpdateUser(users, id, [balance |-> l.newBalance,
                                             spins_left |-> l.newSpins,
                                             golden_tickets |-> l.newTickets])
          /\ tasks' = [tasks EXCEPT ![t] =
                         Finish(Updating(@, "ok"),
                                Resp(200, [ok |-> TRUE, balance |-> l.newBalance,
                                           spins_left |-> l.newSpins,
                                           golden_tickets |-> l.newTickets]))]
          /\ ledger' = Acked(ledger, id, NumberOrZero(q.rofAdd),
                             NumberOrZero(q.spinsAdd), NumberOrZero(q.ticketsAdd))
          /\ UNCHANGED anyFail
  /\ UNCHANGED <<bootVars, referrals, inventory, uniq, started, users0, granted, rewarded>>

(***************************************************************************)
(* SpecReward: /reward/apply requests handled concurrently by two tasks.   *)
(***************************************************************************)
\* <<rofAdd, spinsAdd, ticketsAdd>> of a request
RewardAdds ==
  { <<Num(10), Undefined, Undefined>>,
    <<Num(10), Num(1), Num(1)>>,
    <<Num(0 - 5), Str(3), Undefined>>,
    <<Undefined, Undefined, Undefined>> }

RewardRows == {NoRow, UserRow(0, 20, "free"), UserRow(100, 0, "plus")}

InitReward ==
  /\ InitBooted
  /\ uniq = TRUE
  /\ tasks = [t \in {1, 2} |-> IdleTask]
  /\ InitStore({[NoUsers EXCEPT ![1] = row] : row \in RewardRows})

NextReward ==
  \/ \E t \in DOMAIN tasks : RewardStart(t, MaxConcRequests, {0, 1}, RewardAdds)
  \/ \E t \in DOMAIN tasks : GetOrCreateUserSelect(t)
  \/ \E t \in DOMAIN tasks : GetOrCreateUserInsert(t)
  \/ \E t \in DOMAIN tasks : RewardResolve(t)
  \/ \E t \in DOMAIN tasks : RewardUpdate(t)

SpecReward == InitReward /\ [][NextReward]_vars

(***************************************************************************)
(* handleReferral (lines 615-693).  refCode is a string, modelled as the   *)
(* sequence of its characters.                                             *)
(***************************************************************************)
Digits36 ==
  << "0", "1", "2", "3", "4", "5", "6", "7", "8", "9", "a", "b", "c", "d", "e",
     "f", "g", "h", "i", "j", "k", "l", "m", "n", "o", "p", "q", "r", "s", "t",
     "u", "v", "w", "x", "y", "z" >>
UpperDigits36 ==
  << "0", "1", "2", "3", "4", "5", "6", "7", "8", "9", "A", "B", "C", "D", "E",
     "F", "G", "H", "I", "J", "K", "L", "M", "N", "O", "P", "Q", "R", "S", "T",
     "U", "V", "W", "X", "Y", "Z" >>

IsDigit36(c) ==
  \E d \in 1 .. 36 : Digits36[d] = c \/ UpperDigits36[d] = c
DigitValue36(c) ==
  (CHOOSE d \in 1 .. 36 : Digits36[d] = c \/ UpperDigits36[d] = c) - 1

NaN == [nan |-> TRUE, val |-> 0]
Number(n) == [nan |-> FALSE, val |-> n]

\* The digits of s from position k on, up to the first character that is no
\* base-36 digit, read as a number after the digits already read (acc).
RECURSIVE ParseDigits36(_, _, _)
ParseDigits36(s, k, acc) ==
  IF k > Len(s) \/ ~IsDigit36(s[k]) THEN acc
  ELSE ParseDigits36(s, k + 1, 36 * acc + DigitValue36(s[k]))

RECURSIVE SkipSpace(_, _)
SkipSpace(s, k) == IF k <= Len(s) /\ s[k] = " " THEN SkipSpace(s, k + 1) ELSE k

\* parseInt(refCode, 36): leading white space is skipped, then an optional
\* sign, then the longest run of base-36 digits; NaN when that run is empty.
ParseInt36(s) ==
  LET k0 == SkipSpace(s, 1)
      signed == k0 <= Len(s) /\ s[k0] \in {"-", "+"}
      sign == IF signed /\ s[k0] = "-" THEN 0 - 1 ELSE 1
      k1 == IF signed THEN k0 + 1 ELSE k0 IN
    IF k1 > Len(s) \/ ~IsDigit36(s[k1]) THEN NaN
    ELSE Number(sign * ParseDigits36(s, k1, 0))

\* if (!Number.isFinite(referrerId) || referrerId <= 0) return
BadReferrer(n) == n.nan \/ n.val <= 0

SelfReferralUnchecked(referrerId, referredId) == FALSE

\* if (referrerId === referredId) return
SelfReferral(referrerId, referredId) == referrerId = referredId

\* The return statement a call of handleReferral left by.
Returned(r, how) == Finish(r, [returned |-> how])

ReferralStart(t, maxRequests, codes, froms) ==
  /\ boot = Booted
  /\ Free(t)
  /\ started < maxRequests
  /\ started' = started + 1
  /\ \E code \in codes, from \in froms :
       LET req == [code |-> code, from |-> from,
                   \* history: the store when the call starts, and whether
                   \* this task's previous call was this same claim
                   pre |-> [users |-> users, referrals |-> referrals],
                   replay |-> /\ tasks[t].op = "referral"
                              /\ tasks[t].req.code = code
                              /\ tasks[t].req.from = from]
           referrerId == ParseInt36(code)
           r == NewTask("referral", "ref_check", req) IN
         tasks' = [tasks EXCEPT ![t] =
           IF code = <<>> THEN Returned(r, "no_code")             \* if (!refCode)
           ELSE IF BadReferrer(referrerId) THEN Returned(r, "bad_code")
           ELSE IF SelfReferral(referrerId.val, from) THEN Returned(r, "self")
           ELSE [r EXCEPT !.loc = [referrerId |-> referrerId.val,
                                   referredId |-> from,
                                   \* history: the stages of rewardUser
                                   \* that logged an error
                                   logged |-> {}]]]
  /\ UNCHANGED <<bootVars, users, referrals, inventory, uniq, anyFail, histVars>>

RefPair(r) == <<r.loc.referrerId, r.loc.referredId>>

ExistingNeverFound(n) == FALSE

\* .maybeSingle() hands back a row (existing) when exactly one row matches
Existing(n) == n = 1

\* Check if already recorded (lines 630-642).
ReferralCheck(t) ==
  /\ tasks[t].pc = "ref_check"
  /\ LET r == Called(tasks[t])
         n == referrals[RefPair(tasks[t])] IN
       \/ \* if (refErr) return: a store error
          /\ tasks' = [tasks EXCEPT ![t] = Returned(r, "check_error")]
          /\ anyFail' = TRUE
       \/ \* maybeSingle() with several matching rows is an error as well
          /\ n > 1
          /\ tasks' = [tasks EXCEPT ![t] = Returned(r, "check_error")]
          /\ UNCHANGED anyFail
       \/ /\ n <= 1
          /\ tasks' = [tasks EXCEPT ![t] =
                         IF Existing(n) THEN Returned(r, "existing")
                         ELSE [r EXCEPT !.pc = "ref_insert"]]
          /\ UNCHANGED anyFail
  /\ UNCHANGED <<bootVars, users, referrals, inventory, uniq, started, histVars>>

\* Insert referral row (lines 644-648); the result is not looked at.
ReferralInsert(t) ==
  /\ tasks[t].pc = "ref_insert"
  /\ LET r == [Called(tasks[t]) EXCEPT !.pc = "rew1_select"]
         p == RefPair(tasks[t]) IN
       \/ \* the insert returns an error: a store failure
          /\ tasks' = [tasks EXCEPT ![t] = r]
          /\ anyFail' = TRUE
          /\ UNCHANGED referrals
       \/ \* the insert returns an error: the pair is there by now and the
          \* table has a unique index
          /\ uniq /\ referrals[p] >= 1
          /\ tasks' = [tasks EXCEPT ![t] = r]
          /\ UNCHANGED <<referrals, anyFail>>
       \/ /\ ~(uniq /\ referrals[p] >= 1)
          /\ referrals' = [referrals EXCEPT ![p] = @ + 1]
          /\ tasks' = [tasks EXCEPT ![t] = r]
          /\ UNCHANGED anyFail
  /\ UNCHANGED <<bootVars, users, inventory, uniq, started, histVars>>

\* rewardUser is called for the referrer (stage 1), then for the referred.
RewardStage(r) == IF r.pc \in {"rew1_select", "rew1_write"} THEN 1 ELSE 2

\* A variant that rewards the referrer in both calls.
RewardReferrerTwice(r) == r.loc.referrerId

RewardTarget(r) == IF RewardStage(r) = 1 THEN r.loc.referrerId ELSE r.loc.referredId
AfterReward(r) ==
  IF RewardStage(r) = 1 THEN [r EXCEPT !.pc = "rew2_select"]
  ELSE Returned(r, "rewarded")

\* rewardUser, the select (lines 655-669): rewardCoins = 200, rewardSpins = 20,
\* addInvite is true for the referrer only.
RewardUserSelect(t) ==
  /\ tasks[t].pc \in {"rew1_select", "rew2_select"}
  /\ LET r == Called(tasks[t])
         stage == RewardStage(tasks[t])
         id == RewardTarget(tasks[t])
         row == users[id] IN
       \/ \* if (selErr) { console.error(...); return }
          /\ tasks' = [tasks EXCEPT ![t] =
               AfterReward([r EXCEPT !.loc.logged = @ \cup {stage}])]
          /\ anyFail' = TRUE
       \/ /\ tasks' = [tasks EXCEPT ![t] =
               [r EXCEPT
                  !.pc = IF stage = 1 THEN "rew1_write" ELSE "rew2_write",
                  !.loc = [referrerId |-> r.loc.referrerId,
                           referredId |-> r.loc.referredId,
                           logged |-> r.loc.logged,
                           row |-> row,
                           balance |-> (IF row # NoRow THEN row.balance ELSE 0) + 200,
                           spins_left |-> (IF row # NoRow THEN row.spins_left ELSE 0) + 20,
                           invites |-> (IF row # NoRow THEN row.invites ELSE 0)
                                         + (IF stage = 1 THEN 1 ELSE 0)]]]
          /\ UNCHANGED anyFail
  /\ UNCHANGED <<bootVars, users, referrals, inventory, uniq, started, histVars>>

\* History: one more reward written for the pair, on the side of this stage.
Rewarded(w, p, stage) ==
  IF stage = 1 THEN [w EXCEPT ![p].referrer = @ + 1]
  ELSE [w EXCEPT ![p].referred = @ + 1]

\* rewardUser, the write (lines 671-685): an update when the select found a
\* row, an insert otherwise; neither result is looked at.
RewardUserWrite(t) ==
  /\ tasks[t].pc \in {"rew1_write", "rew2_write"}
  /\ LET l == tasks[t].loc
         stage == RewardStage(tasks[t])
         id == RewardTarget(tasks[t])
         p == RefPair(tasks[t]) IN
       \/ \* the write returns an error (for the insert also: tg_id taken)
          /\ tasks' = [tasks EXCEPT ![t] =
                         AfterReward(IF l.row # NoRow THEN Updating(@, "error")
                                     ELSE Called(@))]
          /\ anyFail' = TRUE
          /\ UNCHANGED <<users, ledger, rewarded>>
       \/ /\ l.row # NoRow
          /\ users' = UpdateUser(users, id, [balance |-> l.balance,
                                             spins_left |-> l.spins_left,
                                             invites |-> l.invites])
          /\ tasks' = [tasks EXCEPT ![t] = AfterReward(Updating(@, "ok"))]
          /\ ledger' = Acked(ledger, id, 200, 20, 0)
          /\ rewarded' = Rewarded(rewarded, p, stage)
          /\ UNCHANGED anyFail
       \/ /\ l.row = NoRow
          /\ ~HasUser(id)
          /\ users' = [users EXCEPT ![id] =
                         [balance |-> l.balance, spins_left |-> l.spins_left,
                          invites |-> l.invites, premium_tier |-> "free",
                          golden_tickets |-> 0]]
          /\ tasks' = [tasks EXCEPT ![t] = AfterReward(Called(@))]
          /\ ledger' = Acked(ledger, id, 200, 20, 0)
          /\ rewarded' = Rewarded(rewarded, p, stage)
          /\ UNCHANGED anyFail
  /\ UNCHANGED <<bootVars, referrals, inventory, uniq, started, users0, granted>>

(***************************************************************************)
(* SpecReferral: handleReferral calls made one after the other.            *)
(* SpecReferralConc: two calls for the same pair running concurrently.     *)
(***************************************************************************)
\* "1", "2", "02" (= 2), "1!" (= 1), "-1", "0", "!" (NaN) and the empty code
RefCodes ==
  { <<"1">>, <<"2">>, <<"0", "2">>, <<"1", "!">>, <<"-", "1">>, <<"0">>, <<"!">>,
    <<>> }

ReferralRows == {NoRow, UserRow(0, 20, "free")}

InitReferral ==
  /\ InitBooted
  /\ uniq \in BOOLEAN
  /\ tasks = [t \in {1} |-> IdleTask]
  /\ InitStore([Ids -> ReferralRows])

NextReferral ==
  \/ \E t \in DOMAIN tasks : ReferralStart(t, MaxSeqRequests, RefCodes, Ids)
  \/ \E t \in DOMAIN tasks : ReferralCheck(t)
  \/ \E t \in DOMAIN tasks : ReferralInsert(t)
  \/ \E t \in DOMAIN tasks : RewardUserSelect(t)
  \/ \E t \in DOMAIN tasks : RewardUserWrite(t)

SpecReferral == InitReferral /\ [][NextReferral]_vars

\* The concurrent specification takes the unique index on (referrer,
\* referred) as given and starts from both accounts present or both absent.
InitReferralConc ==
  /\ InitBooted
  /\ uniq = TRUE
  /\ tasks = [t \in {1, 2} |-> IdleTask]
  /\ InitStore({[i \in Ids |-> row] : row \in ReferralRows})

NextReferralConc ==
  \/ \E t \in DOMAIN tasks : ReferralStart(t, MaxConcRequests, {<<"1">>}, {2})
  \/ \E t \in DOMAIN tasks : ReferralCheck(t)
  \/ \E t \in DOMAIN tasks : ReferralInsert(t)
  \/ \E t \in DOMAIN tasks : RewardUserSelect(t)
  \/ \E t \in DOMAIN tasks : RewardUserWrite(t)

SpecReferralConc == InitReferralConc /\ [][NextReferralConc]_vars

(***************************************************************************)
(* handleSuccessfulPayment (lines 736-844).  invoice_payload is a string:  *)
(* the JSON text of an object {tg_id, item_type, item_id} (tg_id 0 stands  *)
(* for an absent tg_id), the JSON text `null`, or text that is no JSON.    *)
(***************************************************************************)
Json(tg, type, id) == [kind |-> "object", tg_id |-> tg, item_type |-> type, item_id |-> id]
JsonNull == [kind |-> "null", tg_id |-> 0, item_type |-> "", item_id |-> ""]
NotJson == [kind |-> "garbage", tg_id |-> 0, item_type |-> "", item_id |-> ""]

\* The successful_payment messages Telegram delivers, one per charge: the
\* charge id, the sender (msg.from.id) and the invoice payload.
PaymentMsg(c) ==
  CASE c = "ch1" -> [charge |-> c, from |-> 1, payload |-> Json(1, "bundle", "mini")]
    [] c = "ch2" -> [charge |-> c, from |-> 1, payload |-> Json(1, "tier", "plus")]
    [] c = "ch3" -> [charge |-> c, from |-> 2, payload |-> Json(2, "wheel", "neon")]
    [] c = "ch4" -> [charge |-> c, from |-> 2, payload |-> Json(2, "bundle", "mega")]
    [] c = "ch5" -> [charge |-> c, from |-> 2, payload |-> Json(0, "bundle", "medi")]
    [] c = "ch6" -> [charge |-> c, from |-> 1, payload |-> NotJson]
    [] c = "ch7" -> [charge |-> c, from |-> 1, payload |-> JsonNull]

\* const telegramId = tg_id || from.id
TelegramId(tg_id, from) == IF tg_id # 0 THEN tg_id ELSE from

\* The first store call of the grant, by item_type (lines 760-786).
PaymentBranch(type, id) ==
  CASE type = "tier" -> "pay_tier"
    [] type \in {"wheel", "bg"} -> "pay_inventory"
    [] type = "bundle" /\ id \in BundleIds -> "pay_bundle_select"
    [] OTHER -> "pay_send"   \* unknown bundle id, or no branch at all

PaymentStart(t, maxRequests, charges) ==
  /\ boot = Booted
  /\ Free(t)
  /\ started < maxRequests
  /\ started' = started + 1
  /\ \E c \in charges :
       LET msg == PaymentMsg(c)
           pl == msg.payload
           req == [charge |-> c, from |-> msg.from, payload |-> pl,
                   \* history: the store when the call starts, and whether
                   \* this task's previous call handled this same message
                   pre |-> [users |-> users, inventory |-> inventory],
                   replay |-> /\ tasks[t].op = "payment"
                              /\ tasks[t].req.charge = c]
           r == NewTask("payment", PaymentBranch(pl.item_type, pl.item_id), req) IN
         tasks' = [tasks EXCEPT ![t] =
           IF pl.kind = "garbage" THEN Returned(r, "invalid_payload")  \* JSON.parse throws
           ELSE IF pl.kind = "null" THEN Returned(r, "thrown")   \* destructuring null
           ELSE [r EXCEPT !.loc = [telegramId |-> TelegramId(pl.tg_id, msg.from),
                                   item_type |-> pl.item_type,
                                   item_id |-> pl.item_id]]]
  /\ UNCHANGED <<bootVars, users, referrals, inventory, uniq, anyFail, histVars>>

\* History: a grant for the charge of task record r has been written.
Granted(g, r, written) == IF written THEN [g EXCEPT ![r.req.charge] = @ + 1] ELSE g

\* item_type === "tier": update premium_tier (lines 760-772).
PaymentTier(t) ==
  /\ tasks[t].pc = "pay_tier"
  /\ LET l == tasks[t].loc IN
       \/ \* if (error): logged
          /\ tasks' = [tasks EXCEPT ![t] = [Updating(@, "error") EXCEPT !.pc = "pay_send"]]
          /\ anyFail' = TRUE
          /\ UNCHANGED <<users, granted>>
       \/ /\ users' = UpdateUser(users, l.telegramId, [premium_tier |-> l.item_id])
          /\ tasks' = [tasks EXCEPT ![t] = [Updating(@, "ok") EXCEPT !.pc = "pay_send"]]
          /\ granted' = Granted(granted, tasks[t], HasUser(l.telegramId))
          /\ UNCHANGED anyFail
  /\ UNCHANGED <<bootVars, referrals, inventory, uniq, started, users0, ledger,
                 rewarded>>

\* item_type "wheel" or "bg": insert into roff_inventory (lines 773-783).
PaymentInventory(t) ==
  /\ tasks[t].pc = "pay_inventory"
  /\ LET l == tasks[t].loc
         item == <<l.telegramId, l.item_type, l.item_id>> IN
       \/ \* if (error): a store failure, or the tuple is already there and
          \* the table has a unique index; logged
          /\ tasks' = [tasks EXCEPT ![t] = [Called(@) EXCEPT !.pc = "pay_send"]]
          /\ anyFail' = TRUE
          /\ UNCHANGED <<inventory, granted>>
       \/ /\ ~(uniq /\ inventory[item] >= 1)
          /\ inventory' = [inventory EXCEPT ![item] = @ + 1]
          /\ tasks' = [tasks EXCEPT ![t] = [Called(@) EXCEPT !.pc = "pay_send"]]
          /\ granted' = Granted(granted, tasks[t], TRUE)
          /\ UNCHANGED anyFail
  /\ UNCHANGED <<bootVars, users, referrals, uniq, started, users0, ledger,
                 rewarded>>

\* item_type "bundle": read current user balances (lines 789-801).
PaymentBundleSelect(t) ==
  /\ tasks[t].pc = "pay_bundle_select"
  /\ LET r == Called(tasks[t])
         l == tasks[t].loc
         row == users[l.telegramId] IN
       \/ \* if (selErr): logged
          /\ tasks' = [tasks EXCEPT ![t] = [r EXCEPT !.pc = "pay_send"]]
          /\ anyFail' = TRUE
       \/ /\ tasks' = [tasks EXCEPT ![t] =
               [r EXCEPT
                  !.pc = "pay_bundle_update",
                  !.loc = [telegramId |-> l.telegramId, item_type |-> l.item_type,
                           item_id |-> l.item_id,
                           currentBalance |-> IF row # NoRow THEN row.balance ELSE 0,
                           currentSpins |-> IF row # NoRow THEN row.spins_left ELSE 0,
                           currentTickets |->
                             IF row # NoRow THEN row.golden_tickets ELSE 0]]]
          /\ UNCHANGED anyFail
  /\ UNCHANGED <<bootVars, users, referrals, inventory, uniq, started, histVars>>

\* item_type "bundle": write the sums back (lines 803-820).
PaymentBundleUpdate(t) ==
  /\ tasks[t].pc = "pay_bundle_update"
  /\ LET l == tasks[t].loc
         cfg == BUNDLE_CONFIG(l.item_id) IN
       \/ \* if (upErr): logged
          /\ tasks' = [tasks EXCEPT ![t] = [Updating(@, "error") EXCEPT !.pc = "pay_send"]]
          /\ anyFail' = TRUE
          /\ UNCHANGED <<users, ledger, granted>>
       \/ /\ users' = UpdateUser(users, l.telegramId,
                                 [balance |-> l.currentBalance + cfg.rof,
                                  spins_left |-> l.currentSpins + cfg.spins,
                                  golden_tickets |-> l.currentTickets + cfg.tickets])
          /\ tasks' = [tasks EXCEPT ![t] = [Updating(@, "ok") EXCEPT !.pc = "pay_send"]]
          /\ ledger' = IF HasUser(l.telegramId)
                         THEN Acked(ledger, l.telegramId, cfg.rof, cfg.spins, cfg.tickets)
                         ELSE ledger
          /\ granted' = Granted(granted, tasks[t], HasUser(l.telegramId))
          /\ UNCHANGED anyFail
  /\ UNCHANGED <<bootVars, referrals, inventory, uniq, started, users0, rewarded>>

\* The confirmation message (lines 824-840); a fetch that throws is caught.
PaymentSend(t) ==
  /\ tasks[t].pc = "pay_send"
  /\ LET l == tasks[t].loc IN
       \/ tasks' = [tasks EXCEPT ![t] = Returned(@, "send_failed")]
       \/ tasks' = [tasks EXCEPT ![t] =
            Finish(@, [returned |-> "sent", chat_id |-> l.telegramId,
                       text |-> IF l.item_type = "bundle" /\ l.item_id \in BundleIds
                                  THEN "bundle_purchased" ELSE "payment_received"])]
  /\ UNCHANGED <<bootVars, users, referrals, inventory, uniq, started, anyFail,
                 histVars>>

(***************************************************************************)
(* SpecPayment: successful_payment messages handled one after the other.   *)
(***************************************************************************)
PaymentRows == {NoRow, UserRow(0, 20, "free")}

InitPayment ==
  /\ InitBooted
  /\ uniq \in BOOLEAN
  /\ tasks = [t \in {1} |-> IdleTask]
  /\ InitStore([Ids -> PaymentRows])

NextPayment ==
  \/ \E t \in DOMAIN tasks : PaymentStart(t, MaxSeqRequests, Charges)
  \/ \E t \in DOMAIN tasks : PaymentTier(t)
  \/ \E t \in DOMAIN tasks : PaymentInventory(t)
  \/ \E t \in DOMAIN tasks : PaymentBundleSelect(t)
  \/ \E t \in DOMAIN tasks : PaymentBundleUpdate(t)
  \/ \E t \in DOMAIN tasks : PaymentSend(t)

SpecPayment == InitPayment /\ [][NextPayment]_vars

(***************************************************************************)
(* getStarsPrice (lines 526-546) and handlePreCheckout (lines 696-733).    *)
(***************************************************************************)
\* Property names every JavaScript object inherits from Object.prototype:
\* BUNDLE_CONFIG[id] finds a value for them (a function), which is truthy
\* and has no stars, rof, spins or tickets.
InheritedKeys == {"constructor"}

\* getStarsPrice returns a number, or undefined when item_type is "bundle"
\* and BUNDLE_CONFIG[item_id] is an inherited value (cfg.stars).
getStarsPrice(item_type, item_id) ==
  CASE item_type = "tier" ->
         (CASE item_id = "plus" -> Num(700)
            [] item_id = "pro" -> Num(1400)
            [] item_id = "prem" -> Num(2100)
            [] OTHER -> Num(0))
    [] item_type \in {"wheel", "bg"} -> Num(299)
    [] item_type = "bundle" ->
         IF item_id \in BundleIds THEN Num(BUNDLE_CONFIG(item_id).stars)
         ELSE IF item_id \in InheritedKeys THEN Undefined
         ELSE Num(0)
    [] OTHER -> Num(0)

\* expectedAmount: stays 0 when JSON.parse throws, or when the payload is
\* the JSON text null (reading payloadObj.item_type throws inside the try).
ExpectedAmount(payload) ==
  IF payload.kind = "object"
    THEN getStarsPrice(payload.item_type, payload.item_id)
    ELSE Num(0)

\* x > 0 for a JavaScript value: false for undefined
Positive(v) == v.type = "number" /\ v.tenths > 0

\* A variant that approves every query, as the catch branch's comment suggests.
PreCheckoutApproveAll(expectedAmount, total_amount) == TRUE

\* const ok = expectedAmount > 0 ? pre.total_amount === expectedAmount : true
PreCheckoutOk(expectedAmount, total_amount) ==
  IF Positive(expectedAmount) THEN Num(total_amount) = expectedAmount ELSE TRUE

PreCheckoutStart(t, maxRequests, payloads, amounts) ==
  /\ boot = Booted
  /\ Free(t)
  /\ started < maxRequests
  /\ started' = started + 1
  /\ \E payload \in payloads, total_amount \in amounts :
       LET expectedAmount == ExpectedAmount(payload)
           r == NewTask("precheckout", "pre_answer",
                        [invoice_payload |-> payload, total_amount |-> total_amount]) IN
         tasks' = [tasks EXCEPT ![t] =
           [r EXCEPT !.loc = [expectedAmount |-> expectedAmount,
                              ok |-> PreCheckoutOk(expectedAmount, total_amount)]]]
  /\ UNCHANGED <<bootVars, users, referrals, inventory, uniq, anyFail, histVars>>

\* fetch(answerPreCheckoutQuery): the request is sent with body.ok; the
\* fetch may throw (caught, logged), or Telegram may answer not-ok (logged).
PreCheckoutAnswer(t) ==
  /\ tasks[t].pc = "pre_answer"
  /\ \E outcome \in {"answered", "answer_error", "fetch_error"} :
       tasks' = [tasks EXCEPT ![t] =
         Finish(Called(@), [returned |-> outcome, ok |-> tasks[t].loc.ok])]
  /\ UNCHANGED <<bootVars, users, referrals, inventory, uniq, started, anyFail,
                 histVars>>

\* Invoice payloads of pre-checkout queries: catalog items, items that are
\* in no catalog, the JSON text null and text that is no JSON.
PreCheckoutPayloads ==
  {Json(1, "tier", id) : id \in {"plus", "pro", "prem", "gold"}}
    \cup {Json(1, type, "neon") : type \in {"wheel", "bg", "hat"}}
    \cup {Json(2, "bundle", id) : id \in {"mini", "medi", "maxi", "mega", "constructor"}}
    \cup {JsonNull, NotJson}

PreCheckoutAmounts == {0, 1, 299, 599, 700, 1199, 1400, 2100}

InitPreCheckout ==
  /\ InitBooted
  /\ uniq = TRUE
  /\ tasks = [t \in {1} |-> IdleTask]
  /\ InitStore({NoUsers})

NextPreCheckout ==
  \/ \E t \in DOMAIN tasks :
       PreCheckoutStart(t, MaxSeqRequests, PreCheckoutPayloads, PreCheckoutAmounts)
  \/ \E t \in DOMAIN tasks : PreCheckoutAnswer(t)

SpecPreCheckout == InitPreCheckout /\ [][NextPreCheckout]_vars

(***************************************************************************)
(* POST /webhook (lines 848-902).  The handler awaits handlePreCheckout,   *)
(* handleSuccessfulPayment, handleReferral and sendPlayButton in turn: the *)
(* handler runs in one frame of tasks and the function it awaits in        *)
(* another, which is idle whenever the handler is not inside a call.       *)
(***************************************************************************)
\* An update Telegram (or anyone else) posts.  token_ok: the secret-token
\* header matches, or no secret is configured.  kind: the field the update
\* carries.  chat 0 stands for an absent chat id, charge "" for a message
\* without successful_payment, start for a text that begins with /start
\* and code for the word after it (<<>> when there is none).
Update(token_ok, kind, payload, total_amount, charge, start, code, from, chat) ==
  [token_ok |-> token_ok, kind |-> kind, invoice_payload |-> payload,
   total_amount |-> total_amount, charge |-> charge, start |-> start,
   code |-> code, from |-> from, chat |-> chat]

PreCheckoutUpdate(token_ok, payload, total_amount) ==
  Update(token_ok, "pre_checkout_query", payload, total_amount, "", FALSE, <<>>, 1, 0)

PaymentUpdate(token_ok, c) ==
  Update(token_ok, "message", NotJson, 0, c, FALSE, <<>>, PaymentMsg(c).from,
         PaymentMsg(c).from)

TextUpdate(token_ok, start, code, from, chat) ==
  Update(token_ok, "message", NotJson, 0, "", start, code, from, chat)

OtherUpdate(token_ok, kind, chat) ==
  Update(token_ok, kind, NotJson, 0, "", FALSE, <<>>, 1, chat)

\* A variant that never looks at u.pre_checkout_query.
PreCheckoutIgnored(u) == FALSE

\* if (u.pre_checkout_query)
CarriesPreCheckout(u) == u.kind = "pre_checkout_query"

Opt(cond, pc) == IF cond THEN <<pc>> ELSE <<>>

\* The awaits the handler goes through for update u, in order, ending with
\* res.sendStatus(200) (lines 863-897).
Stages(u) ==
  Opt(CarriesPreCheckout(u), "wh_pre")
    \o ( IF u.kind = "message"
           THEN Opt(u.charge # "", "wh_payment")
                  \o Opt(u.start /\ u.code # <<>>, "wh_referral")
                  \o Opt(u.chat # 0, "wh_play")
           ELSE Opt(u.kind = "my_chat_member" /\ u.chat # 0, "wh_play") )
    \o <<"wh_respond">>

\* The handler frame moves on to its next await; what the finished await
\* did is kept as history in log.
Advance(r, entry) ==
  [r EXCEPT !.pc = Head(r.loc.rest),
            !.loc = [u |-> r.loc.u, rest |-> Tail(r.loc.rest),
                     log |-> Append(r.loc.log, entry),
                     responses |-> r.loc.responses]]

\* res.sendStatus(status)
Respond(r, status) ==
  [Finish(r, Resp(status, "sent")) EXCEPT
     !.loc = [u |-> r.loc.u, rest |-> <<>>, log |-> r.loc.log,
              responses |-> r.loc.responses + 1]]

\* A variant without the catch block: the framework answers 500.
Uncaught(r) == Respond(r, 500)

\* catch (e) { ...; res.sendStatus(200) } (lines 898-901)
Caught(r) == [r EXCEPT !.pc = "wh_catch"]

\* A variant without the secret-token check.
TokenUnchecked(u) == FALSE

\* if (TELEGRAM_SECRET_TOKEN) { if (headerToken !== TELEGRAM_SECRET_TOKEN)
\* ... } (lines 853-859)
TokenRejected(u) == ~u.token_ok

WebhookStart(w, c, maxRequests, updates) ==
  /\ boot = Booted
  /\ Free(w)
  /\ tasks[c] = IdleTask
  /\ started < maxRequests
  /\ started' = started + 1
  /\ \E u \in updates :
       LET r == [NewTask("webhook", Head(Stages(u)), u) EXCEPT
                   !.loc = [u |-> u, rest |-> Tail(Stages(u)), log |-> <<>>,
                            responses |-> 0]] IN
         tasks' = [tasks EXCEPT ![w] =
           IF TokenRejected(u) THEN Respond(r, 403) ELSE r]
  /\ UNCHANGED <<bootVars, users, referrals, inventory, uniq, anyFail, histVars>>

\* await handlePreCheckout(u.pre_checkout_query)
WebhookPreCheckout(w, c) ==
  /\ tasks[w].pc = "wh_pre"
  /\ tasks[c] = IdleTask
  /\ PreCheckoutStart(c, started + 1, {tasks[w].req.invoice_payload},
                      {tasks[w].req.total_amount})

\* await handleSuccessfulPayment(msg)
WebhookPayment(w, c) ==
  /\ tasks[w].pc = "wh_payment"
  /\ tasks[c] = IdleTask
  /\ PaymentStart(c, started + 1, {tasks[w].req.charge})

\* await handleReferral(refCode, msg.from)
WebhookReferral(w, c) ==
  /\ tasks[w].pc = "wh_referral"
  /\ tasks[c] = IdleTask
  /\ ReferralStart(c, started + 1, {tasks[w].req.code}, {tasks[w].req.from})

\* The awaited function has returned or thrown.  started counts inbound
\* requests, so the count the call added is taken back.
WebhookReturn(w, c) ==
  /\ tasks[w].pc \in {"wh_pre", "wh_payment", "wh_referral"}
  /\ tasks[c].pc = "done"
  /\ started' = started - 1
  /\ LET entry == [op |-> tasks[c].op, returned |-> tasks[c].resp.returned,
                   nCalls |-> tasks[c].nCalls] IN
       tasks' = [tasks EXCEPT
         ![c] = IdleTask,
         ![w] = IF tasks[c].resp.returned = "thrown"
                  THEN Caught(Advance(@, entry))
                  ELSE Advance(@, entry)]
  /\ UNCHANGED <<bootVars, users, referrals, inventory, uniq, anyFail, histVars>>

\* await sendPlayButton(chatId, name) (lines 549-571): one fetch, whose
\* failure is caught and logged inside sendPlayButton.
WebhookPlay(w) ==
  /\ tasks[w].pc = "wh_play"
  /\ \E outcome \in {"sent", "send_error", "fetch_error"} :
       tasks' = [tasks EXCEPT ![w] =
         Advance(Called(@), [op |-> "play", returned |-> outcome, nCalls |-> 1])]
  /\ UNCHANGED <<bootVars, users, referrals, inventory, uniq, started, anyFail,
                 histVars>>

\* res.sendStatus(200) at the end of the try block (line 897)
WebhookRespond(w) ==
  /\ tasks[w].pc = "wh_respond"
  /\ tasks' = [tasks EXCEPT ![w] = Respond(@, 200)]
  /\ UNCHANGED <<bootVars, users, referrals, inventory, uniq, started, anyFail,
                 histVars>>

\* res.sendStatus(200) in the catch block (line 900)
WebhookCatch(w) ==
  /\ tasks[w].pc = "wh_catch"
  /\ tasks' = [tasks EXCEPT ![w] = Respond(@, 200)]
  /\ UNCHANGED <<bootVars, users, referrals, inventory, uniq, started, anyFail,
                 histVars>>

WebhookFrame == 1
CalleeFrame == 2

WebhookTokens == BOOLEAN

WebhookUpdates ==
  UNION { {PreCheckoutUpdate(k, pl, 700) :
             pl \in {Json(1, "tier", "plus"), Json(1, "tier", "gold"), JsonNull, NotJson}}
            \cup {PaymentUpdate(k, ch) : ch \in {"ch1", "ch2", "ch3", "ch6", "ch7"}}
            \cup {TextUpdate(k, TRUE, <<"1">>, 2, 2),
                  TextUpdate(k, TRUE, <<"2">>, 2, 2),
                  TextUpdate(k, TRUE, <<>>, 1, 1),
                  TextUpdate(k, FALSE, <<>>, 1, 0)}
            \cup {OtherUpdate(k, "my_chat_member", 1),
                  OtherUpdate(k, "my_chat_member", 0),
                  OtherUpdate(k, "edited_message", 1)}
          : k \in WebhookTokens }

InitWebhook ==
  /\ InitBooted
  /\ uniq = TRUE
  /\ tasks = [t \in {WebhookFrame, CalleeFrame} |-> IdleTask]
  /\ InitStore({NoUsers, [i \in Ids |-> UserRow(0, 20, "free")]})

\* Every step but the arrival of an update.
WebhookProgress ==
  \/ WebhookPreCheckout(WebhookFrame, CalleeFrame)
  \/ PreCheckoutAnswer(CalleeFrame)
  \/ WebhookPayment(WebhookFrame, CalleeFrame)
  \/ PaymentTier(CalleeFrame)
  \/ PaymentInventory(CalleeFrame)
  \/ PaymentBundleSelect(CalleeFrame)
  \/ PaymentBundleUpdate(CalleeFrame)
  \/ PaymentSend(CalleeFrame)
  \/ WebhookReferral(WebhookFrame, CalleeFrame)
  \/ ReferralCheck(CalleeFrame)
  \/ ReferralInsert(CalleeFrame)
  \/ RewardUserSelect(CalleeFrame)
  \/ RewardUserWrite(CalleeFrame)
  \/ WebhookReturn(WebhookFrame, CalleeFrame)
  \/ WebhookPlay(WebhookFrame)
  \/ WebhookRespond(WebhookFrame)
  \/ WebhookCatch(WebhookFrame)

NextWebhook ==
  \/ WebhookStart(WebhookFrame, CalleeFrame, MaxSeqRequests, WebhookUpdates)
  \/ WebhookPreCheckout(WebhookFrame, CalleeFrame)
  \/ PreCheckoutAnswer(CalleeFrame)
  \/ WebhookPayment(WebhookFrame, CalleeFrame)
  \/ PaymentTier(CalleeFrame)
  \/ PaymentInventory(CalleeFrame)
  \/ PaymentBundleSelect(CalleeFrame)
  \/ PaymentBundleUpdate(CalleeFrame)
  \/ PaymentSend(CalleeFrame)
  \/ WebhookReferral(WebhookFrame, CalleeFrame)
  \/ ReferralCheck(CalleeFrame)
  \/ ReferralInsert(CalleeFrame)
  \/ RewardUserSelect(CalleeFrame)
  \/ RewardUserWrite(CalleeFrame)
  \/ WebhookReturn(WebhookFrame, CalleeFrame)
  \/ WebhookPlay(WebhookFrame)
  \/ WebhookRespond(WebhookFrame)
  \/ WebhookCatch(WebhookFrame)

SpecWebhook == InitWebhook /\ [][NextWebhook]_vars

\* Each await of the handler ends (the store and Telegram answer or the
\* fetch fails), so a handler in flight keeps taking steps.
SpecWebhookFair == SpecWebhook /\ WF_vars(WebhookProgress)

(***************************************************************************)
(* POST /inventory/unlock (lines 1246-1287).                               *)
(***************************************************************************)
\* if (!tg_id || !item_type || !item_id): 0 and "" stand for what is falsy
UnlockMissing(tg_id, item_type, item_id) ==
  tg_id = 0 \/ item_type = "" \/ item_id = ""

\* A variant that never finds the item.
NeverOwned(n) == FALSE

\* if (existing): maybeSingle() hands back the row when exactly one matches
AlreadyOwned(n) == n = 1

UnlockItem(r) == <<r.req.tg_id, r.req.item_type, r.req.item_id>>

UnlockStart(t, maxRequests, tgIds, itemTypes, itemIds) ==
  /\ boot = Booted
  /\ Free(t)
  /\ started < maxRequests
  /\ started' = started + 1
  /\ \E tg_id \in tgIds, item_type \in itemTypes, item_id \in itemIds :
       LET replay == /\ tasks[t].op = "unlock"
                     /\ tasks[t].req.tg_id = tg_id
                     /\ tasks[t].req.item_type = item_type
                     /\ tasks[t].req.item_id = item_id
           req == [tg_id |-> tg_id, item_type |-> item_type, item_id |-> item_id,
                   \* history: the inventory when the call starts, whether
                   \* this task's previous call was this same request, and
                   \* then what that call started from and answered
                   pre |-> inventory,
                   replay |-> replay,
                   prev |-> IF replay
                              THEN [pre |-> tasks[t].req.pre, resp |-> tasks[t].resp]
                              ELSE Nil] IN
         tasks' = [tasks EXCEPT ![t] =
           IF UnlockMissing(tg_id, item_type, item_id)
             THEN Answered("unlock", req, Err(400, "missing_fields"))
             ELSE [NewTask("unlock", "unl_select", req) EXCEPT
                     !.loc = [insert |-> "none"]]]
  /\ UNCHANGED <<bootVars, users, referrals, inventory, uniq, anyFail, histVars>>

\* Check if already owned (lines 1255-1271).
UnlockSelect(t) ==
  /\ tasks[t].pc = "unl_select"
  /\ LET r == Called(tasks[t])
         n == inventory[UnlockItem(tasks[t])] IN
       \/ \* if (selErr): a store error
          /\ tasks' = [tasks EXCEPT ![t] = Finish(r, Err(500, "db_error"))]
          /\ anyFail' = TRUE
       \/ \* maybeSingle() with several matching rows is an error as well
          /\ n > 1
          /\ tasks' = [tasks EXCEPT ![t] = Finish(r, Err(500, "db_error"))]
          /\ UNCHANGED anyFail
       \/ /\ n <= 1
          /\ tasks' = [tasks EXCEPT ![t] =
               IF AlreadyOwned(n)
                 THEN Finish(r, Resp(200, [ok |-> TRUE, alreadyOwned |-> TRUE]))
                 ELSE [r EXCEPT !.pc = "unl_insert"]]
          /\ UNCHANGED anyFail
  /\ UNCHANGED <<bootVars, users, referrals, inventory, uniq, started, histVars>>

\* The insert (lines 1273-1282).  loc.insert is history: how it went.
UnlockInsert(t) ==
  /\ tasks[t].pc = "unl_insert"
  /\ LET r == Called(tasks[t])
         item == UnlockItem(tasks[t]) IN
       \/ \* if (insErr): a store error
          /\ tasks' = [tasks EXCEPT ![t] =
               [Finish(r, Err(500, "db_error")) EXCEPT !.loc = [insert |-> "error"]]]
          /\ anyFail' = TRUE
          /\ UNCHANGED inventory
       \/ \* if (insErr): the tuple is there by now and the table has a
          \* unique index
          /\ uniq /\ inventory[item] >= 1
          /\ tasks' = [tasks EXCEPT ![t] =
               [Finish(r, Err(500, "db_error")) EXCEPT !.loc = [insert |-> "duplicate"]]]
          /\ UNCHANGED <<inventory, anyFail>>
       \/ /\ ~(uniq /\ inventory[item] >= 1)
          /\ inventory' = [inventory EXCEPT ![item] = @ + 1]
          /\ tasks' = [tasks EXCEPT ![t] =
               [Finish(r, Resp(200, [ok |-> TRUE, alreadyOwned |-> FALSE])) EXCEPT
                  !.loc = [insert |-> "ok"]]]
          /\ UNCHANGED anyFail
  /\ UNCHANGED <<bootVars, users, referrals, uniq, started, histVars>>

(***************************************************************************)
(* SpecUnlock: /inventory/unlock requests one after the other.             *)
(***************************************************************************)
UnlockTgIds == Ids \cup {0}
UnlockItemTypes == ItemTypes \cup {""}
UnlockItemIds == ItemIds \cup {""}

InitUnlock ==
  /\ InitBooted
  /\ uniq \in BOOLEAN
  /\ tasks = [t \in {1} |-> IdleTask]
  /\ InitStore({NoUsers})

NextUnlock ==
  \/ \E t \in DOMAIN tasks :
       UnlockStart(t, MaxSeqRequests, UnlockTgIds, UnlockItemTypes, UnlockItemIds)
  \/ \E t \in DOMAIN tasks : UnlockSelect(t)
  \/ \E t \in DOMAIN tasks : UnlockInsert(t)

SpecUnlock == InitUnlock /\ [][NextUnlock]_vars

(***************************************************************************)
(* SpecInventory: /inventory/unlock requests and confirmed payments for    *)
(* one skin, (2, wheel, neon), running concurrently; the table may or may  *)
(* not have a unique index on the tuple.                                   *)
(***************************************************************************)
InitInventory ==
  /\ InitBooted
  /\ uniq \in BOOLEAN
  /\ tasks = [t \in {1, 2} |-> IdleTask]
  /\ InitStore({[i \in Ids |-> UserRow(0, 20, "free")]})

NextInventory ==
  \/ \E t \in DOMAIN tasks : UnlockStart(t, MaxConcRequests, {2}, {"wheel"}, {"neon"})
  \/ \E t \in DOMAIN tasks : UnlockSelect(t)
  \/ \E t \in DOMAIN tasks : UnlockInsert(t)
  \/ \E t \in DOMAIN tasks : PaymentStart(t, MaxConcRequests, {"ch3"})
  \/ \E t \in DOMAIN tasks : PaymentInventory(t)
  \/ \E t \in DOMAIN tasks : PaymentSend(t)

SpecInventory == InitInventory /\ [][NextInventory]_vars

(***************************************************************************)
(* POST /tier/apply (lines 1217-1243).                                     *)
(***************************************************************************)
\* if (!tg_id || !tier_key): 0 and "" stand for what is falsy
TierMissing(tg_id, tier_key) == tg_id = 0 \/ tier_key = ""

TierApplyStart(t, maxRequests, tgIds, tierKeys) ==
  /\ boot = Booted
  /\ Free(t)
  /\ started < maxRequests
  /\ started' = started + 1
  /\ \E tg_id \in tgIds, tier_key \in tierKeys :
       LET req == [tg_id |-> tg_id, tier_key |-> tier_key] IN
         tasks' = [tasks EXCEPT ![t] =
           IF TierMissing(tg_id, tier_key)
             THEN Answered("tier", req, Err(400, "missing_fields"))
             ELSE NewTask("tier", "tier_update", req)]
  /\ UNCHANGED <<bootVars, users, referrals, inventory, uniq, anyFail, histVars>>

\* update({ premium_tier: tier_key }).eq("tg_id", tg_id).select("*")
\* .maybeSingle(): data is the changed row, or null when there is none.
TierApplyUpdate(t) ==
  /\ tasks[t].pc = "tier_update"
  /\ LET id == tasks[t].req.tg_id
         after == UpdateUser(users, id, [premium_tier |-> tasks[t].req.tier_key]) IN
       \/ \* if (error)
          /\ tasks' = [tasks EXCEPT ![t] =
               Finish(Updating(@, "error"), Err(500, "db_error"))]
          /\ anyFail' = TRUE
          /\ UNCHANGED users
       \/ /\ users' = after
          /\ tasks' = [tasks EXCEPT ![t] =
               Finish(Updating(@, "ok"), Resp(200, [ok |-> TRUE, user |-> after[id]]))]
          /\ UNCHANGED anyFail
  /\ UNCHANGED <<bootVars, referrals, inventory, uniq, started, histVars>>

(***************************************************************************)
(* SpecTier: /tier/apply requests and confirmed tier payments (ch2: plus   *)
(* for account 1), one after the other.                                    *)
(***************************************************************************)
TierKeys == {"", "free", "plus", "prem", "gold"}
TierRows == {NoRow, UserRow(0, 20, "free"), UserRow(0, 20, "pro")}

InitTier ==
  /\ InitBooted
  /\ uniq = TRUE
  /\ tasks = [t \in {1} |-> IdleTask]
  /\ InitStore([Ids -> TierRows])

NextTier ==
  \/ \E t \in DOMAIN tasks : TierApplyStart(t, MaxSeqRequests, {0, 1, 2}, TierKeys)
  \/ \E t \in DOMAIN tasks : TierApplyUpdate(t)
  \/ \E t \in DOMAIN tasks : PaymentStart(t, MaxSeqRequests, {"ch2"})
  \/ \E t \in DOMAIN tasks : PaymentTier(t)
  \/ \E t \in DOMAIN tasks : PaymentSend(t)

SpecTier == InitTier /\ [][NextTier]_vars

(***************************************************************************)
(* POST /stars/create-invoice (lines 1008-1088).                           *)
(***************************************************************************)
\* if (!tg_id || !item_type || !item_id): 0 and "" stand for what is falsy
InvoiceMissing(tg_id, item_type, item_id) ==
  tg_id = 0 \/ item_type = "" \/ item_id = ""

\* A variant with the second test only (undefined <= 0 is false).
InvalidPriceNotPositive(amountStars) ==
  amountStars.type = "number" /\ amountStars.tenths <= 0

\* if (!amountStars || amountStars <= 0)
InvalidPrice(amountStars) ==
  \/ amountStars.type = "undefined"
  \/ amountStars.type = "number" /\ amountStars.tenths = 0
  \/ amountStars.type = "number" /\ amountStars.tenths <= 0

\* if (!cfg) in the bundle branch of the title (lines 1041-1047)
UnknownBundle(item_type, item_id) ==
  item_type = "bundle" /\ item_id \notin (BundleIds \cup InheritedKeys)

InvoiceStart(t, maxRequests, tgIds, itemTypes, itemIds) ==
  /\ boot = Booted
  /\ Free(t)
  /\ started < maxRequests
  /\ started' = started + 1
  /\ \E tg_id \in tgIds, item_type \in itemTypes, item_id \in itemIds :
       LET req == [tg_id |-> tg_id, item_type |-> item_type, item_id |-> item_id]
           amountStars == getStarsPrice(item_type, item_id) IN
         tasks' = [tasks EXCEPT ![t] =
           IF InvoiceMissing(tg_id, item_type, item_id)
             THEN Answered("invoice", req, Err(400, "missing_params"))
           ELSE IF InvalidPrice(amountStars)
             THEN Answered("invoice", req, Err(400, "invalid_price"))
           ELSE IF UnknownBundle(item_type, item_id)
             THEN Answered("invoice", req, Err(400, "unknown_bundle"))
           ELSE [NewTask("invoice", "inv_create", req) EXCEPT
                   \* payload = JSON.stringify({ tg_id, item_type, item_id })
                   !.loc = [payload |-> Json(tg_id, item_type, item_id),
                            amountStars |-> amountStars]]]
  /\ UNCHANGED <<bootVars, users, referrals, inventory, uniq, anyFail, histVars>>

\* fetch(createInvoiceLink) (lines 1052-1080): the fetch throws, Telegram
\* answers not-ok, or the link of an invoice with this payload and amount
\* comes back.
InvoiceCreate(t) ==
  /\ tasks[t].pc = "inv_create"
  /\ LET r == Called(tasks[t]) IN
       \/ tasks' = [tasks EXCEPT ![t] = Finish(r, Err(500, "server_error"))]
       \/ tasks' = [tasks EXCEPT ![t] = Finish(r, Err(500, "telegram_invoice_failed"))]
       \/ tasks' = [tasks EXCEPT ![t] =
            Finish(r, Resp(200, [ok |-> TRUE,
                                 invoice_link |-> [payload |-> r.loc.payload,
                                                   amount |-> r.loc.amountStars]]))]
  /\ UNCHANGED <<bootVars, users, referrals, inventory, uniq, started, anyFail,
                 histVars>>

(***************************************************************************)
(* SpecInvoice: the miniapp asks for an invoice (frame 1); Telegram sends  *)
(* a pre-checkout query carrying the payload of the invoice last issued,   *)
(* with any total_amount (frame 2).                                        *)
(***************************************************************************)
InvoiceFrame == 1
QueryFrame == 2

InvoiceItemTypes == {"tier", "wheel", "bg", "bundle", "hat", ""}
InvoiceItemIds == {"plus", "pro", "prem", "gold", "neon", "mini", "medi", "maxi",
                   "mega", "constructor", ""}

\* The invoice the last /stars/create-invoice request has issued.
Issued(r) ==
  r.op = "invoice" /\ r.pc = "done" /\ r.resp.status = 200

InvoicePreCheckout(i, q) ==
  /\ Issued(tasks[i])
  /\ PreCheckoutStart(q, started + 1, {tasks[i].resp.body.invoice_link.payload},
                      PreCheckoutAmounts)

InitInvoice ==
  /\ InitBooted
  /\ uniq = TRUE
  /\ tasks = [t \in {InvoiceFrame, QueryFrame} |-> IdleTask]
  /\ InitStore({NoUsers})

NextInvoice ==
  \/ InvoiceStart(InvoiceFrame, MaxSeqRequests, {0, 1}, InvoiceItemTypes,
                  InvoiceItemIds)
  \/ InvoiceCreate(InvoiceFrame)
  \/ /\ started < MaxSeqRequests
     /\ InvoicePreCheckout(InvoiceFrame, QueryFrame)
  \/ PreCheckoutAnswer(QueryFrame)

SpecInvoice == InitInvoice /\ [][NextInvoice]_vars

(***************************************************************************)
(* Claims.                                                                 *)
(***************************************************************************)

\* The balance account id starts from: its row at start-up, or the default
\* row when it is created lazily.
BaseBalance(id) == IF users0[id] # NoRow THEN users0[id].balance ELSE 0

\* C1: when two /reward/apply requests on the same account, each adding +10
\* currency, have both been acknowledged ok:true (in any interleaving of
\* their read and write steps), the stored balance is exactly +20 higher
\* than before: no update is lost.
C1_NoLostUpdate ==
  ( /\ started = 2
    /\ \A t \in DOMAIN tasks :
         /\ tasks[t].op = "reward"
         /\ tasks[t].pc = "done"
         /\ tasks[t].req.tg_id = 1
         /\ tasks[t].req.rofAdd = Num(10)
         /\ tasks[t].upd = "ok"
         /\ tasks[t].resp.body.ok )
  => users[1].balance = BaseBalance(1) + 20

\* C2: whenever the spins_left that /spin read is smaller than the effective
\* turbo multiplier, the step that follows the read ends the request with the
\* normal response {ok: false, error: "no_spins"} (status 200), the task has
\* issued no update, and roff_users is left as it was.
C2_NoSpinsNoWrite ==
  [][\A t \in DOMAIN tasks :
       ( /\ tasks[t].op = "spin"
         /\ tasks[t].pc = "have_user"
         /\ tasks'[t] # tasks[t]
         /\ tasks[t].loc.user.spins_left < Turbo(tasks[t].req.turboMult) )
       => ( /\ tasks'[t].pc = "done"
            /\ tasks'[t].resp = Resp(200, [ok |-> FALSE, error |-> "no_spins"])
            /\ tasks'[t].nUpdates = 0
            /\ users' = users )]_vars

\* C2 witness: a request answered no_spins although the account had spins,
\* only fewer than the multiplier asked for.
C2_Witness ==
  \E t \in DOMAIN tasks :
    /\ tasks[t].op = "spin"
    /\ tasks[t].pc = "done"
    /\ tasks[t].resp = Resp(200, [ok |-> FALSE, error |-> "no_spins"])
    /\ tasks[t].loc.user.spins_left = 7
    /\ tasks[t].req.turboMult = Num(10)
    /\ users = users0

\* C3: every spins_left value a spin (either revision) is about to write or
\* has written and reported is >= 0, under any interleaving of spins.
C3_SpinsNeverNegative ==
  \A t \in DOMAIN tasks :
    tasks[t].op \in {"spin", "spinV1"} =>
      /\ tasks[t].pc \in {"spin_update", "spinV1_update"} => tasks[t].loc.newSpins >= 0
      /\ tasks[t].upd = "ok" =>
           /\ tasks[t].loc.newSpins >= 0
           /\ tasks[t].resp.body.spins_left >= 0

\* C3 witness: two spins that both read the last spin credit have both
\* written spins_left = 0.
C3_Witness ==
  /\ \A t \in DOMAIN tasks :
       /\ tasks[t].op \in {"spin", "spinV1"}
       /\ tasks[t].upd = "ok"
       /\ tasks[t].loc.user.spins_left = 1
       /\ tasks[t].loc.newSpins = 0
  /\ users[1].spins_left = 0

\* C4: a /spin task issues at most one update and never a second one; it
\* answers ok:true (with index, prize, balance, spins_left) only when that
\* one update succeeded, and at that step the row holds the reported
\* values; when the update fails it answers 500 db_update_failed with
\* nothing but ok and error in the body.
C4_State ==
  \A t \in DOMAIN tasks :
    (tasks[t].op = "spin" /\ tasks[t].pc = "done") =>
      /\ tasks[t].nUpdates <= 1
      /\ tasks[t].resp.body.ok => (tasks[t].nUpdates = 1 /\ tasks[t].upd = "ok")
      /\ tasks[t].upd = "error" =>
           tasks[t].resp = Resp(500, [ok |-> FALSE, error |-> "db_update_failed"])
      /\ ~tasks[t].resp.body.ok => DOMAIN tasks[t].resp.body = {"ok", "error"}

C4_PrizeOnlyIfPersisted ==
  [][ /\ C4_State'
      /\ \A t \in DOMAIN tasks :
           ( /\ tasks[t].op = "spin"
             /\ tasks[t].pc # "done"
             /\ tasks'[t].pc = "done"
             /\ tasks'[t].resp.body.ok )
           => /\ tasks[t].pc = "spin_update"
              /\ users'[tasks[t].req.tg_id].balance = tasks'[t].resp.body.balance
              /\ users'[tasks[t].req.tg_id].spins_left = tasks'[t].resp.body.spins_left
    ]_vars

\* C4 witness: a spin whose update failed, answered db_update_failed.
C4_Witness ==
  \E t \in DOMAIN tasks :
    /\ tasks[t].op = "spin"
    /\ tasks[t].pc = "done"
    /\ tasks[t].upd = "error"
    /\ tasks[t].loc.prize > 0
    /\ tasks[t].resp.status = 500
    /\ users = users0

\* The payout table and the tier multipliers as the specification states them.
ClaimPayout(n) ==   \* n is the 1-indexed segment
  CASE n = 1 -> 100
    [] n % 2 = 0 -> 1
    [] n \in {3, 7, 11, 15, 19, 23} -> 2
    [] n \in {5, 9, 13} -> 5
    [] n \in {17, 25} -> 20
    [] n = 21 -> 50

ClaimTierMult(tier) ==
  CASE tier = "free" -> 1 [] tier = "plus" -> 2 [] tier = "pro" -> 3 [] tier = "prem" -> 5

\* C5: for every segment index 0..24, tier in {free, plus, pro, prem} and
\* turbo in {1, 5, 10, 20, 50}, a successful spin reports and credits
\* payoutTable[segment] * tierMultiplier[tier] * turbo: the stored balance
\* grows by exactly the prize and the stored spins_left drops by turbo.
C5_PrizeFormula ==
  [][\A t \in DOMAIN tasks : \A n \in {1, 5, 10, 20, 50} :
       ( /\ tasks[t].op = "spin"
         /\ tasks[t].pc = "spin_update"
         /\ tasks'[t].pc = "done"
         /\ tasks'[t].resp.body.ok
         /\ tasks[t].req.turboMult = Num(n)
         /\ tasks[t].loc.user.premium_tier \in {"free", "plus", "pro", "prem"} )
       => LET id == tasks[t].req.tg_id
              body == tasks'[t].resp.body
              prize == ClaimPayout(body.index + 1)
                         * ClaimTierMult(tasks[t].loc.user.premium_tier) * n IN
            /\ body.index \in 0 .. 24
            /\ body.prize = prize
            /\ users'[id].balance = users[id].balance + prize
            /\ users'[id].spins_left = users[id].spins_left - n
            /\ body.balance = users'[id].balance
            /\ body.spins_left = users'[id].spins_left ]_vars

\* C5 witness: segment 0, tier prem, turbo 10 pays 100 * 5 * 10 = 5000.
C5_Witness ==
  \E t \in DOMAIN tasks :
    /\ tasks[t].op = "spin"
    /\ tasks[t].pc = "done"
    /\ tasks[t].resp.body.ok
    /\ tasks[t].resp.body.index = 0
    /\ tasks[t].loc.user.premium_tier = "prem"
    /\ tasks[t].req.turboMult = Num(10)
    /\ tasks[t].resp.body.prize = 5000
    /\ users[1].balance = users0[1].balance + 5000
    /\ users[1].spins_left = 50

\* C6: once buildSlots has run the table has exactly 25 entries, none
\* empty, holding the amounts of the specification's table, and no step of
\* buildSlots changes a cell that already holds an amount.
C6_TableAsSpecified ==
  /\ DOMAIN arr = 0 .. 24
  /\ \A i \in DOMAIN arr : arr[i] = [empty |-> FALSE, amount |-> ClaimPayout(i + 1)]

C6_PayoutTable ==
  [][ /\ boot' = Booted => C6_TableAsSpecified'
      /\ \A i \in DOMAIN arr : ~arr[i].empty => (i \in DOMAIN arr' /\ arr'[i] = arr[i])
    ]_vars

\* C6 witness: start-up has finished and the last put() has filled segment 21.
C6_Witness ==
  /\ boot = Booted
  /\ arr[0].amount = 100
  /\ arr[20].amount = 50
  /\ arr[24].amount = 20

\* The claim made by a handleReferral task is a valid one: the code decodes
\* to a positive id that is not the referred user's.
ValidClaim(r) ==
  /\ r.op = "referral"
  /\ r.req.code # <<>>
  /\ ~BadReferrer(ParseInt36(r.req.code))
  /\ ParseInt36(r.req.code).val # r.req.from

ClaimPair(r) == <<ParseInt36(r.req.code).val, r.req.from>>

\* C7: when the same valid referral claim (same code, same referred user) is
\* made again after the first call has finished, and no store call has
\* failed, there is exactly one ReferralRecord for the pair, each side has
\* been rewarded exactly once, and the second call has changed nothing in
\* roff_users (balance, spins_left, invites) or roff_referrals.
C7_ReplayIdempotent ==
  \A t \in DOMAIN tasks :
    ( /\ ValidClaim(tasks[t])
      /\ tasks[t].pc = "done"
      /\ tasks[t].req.replay
      /\ ~anyFail )
    => /\ referrals[ClaimPair(tasks[t])] = 1
       /\ rewarded[ClaimPair(tasks[t])] = [referrer |-> 1, referred |-> 1]
       /\ users = tasks[t].req.pre.users
       /\ referrals = tasks[t].req.pre.referrals

\* C7 witness: the replay of claim "1" by user 2 has returned at the
\* existing-record check; both accounts hold the one reward.
C7_Witness ==
  \E t \in DOMAIN tasks :
    /\ tasks[t].pc = "done"
    /\ tasks[t].op = "referral"
    /\ tasks[t].req.replay
    /\ tasks[t].req.code = <<"1">>
    /\ tasks[t].req.from = 2
    /\ tasks[t].resp = [returned |-> "existing"]
    /\ ~anyFail
    /\ users0[1] # NoRow
    /\ users[1].balance = users0[1].balance + 200
    /\ users[1].invites = 1
    /\ users[2] # NoRow
    /\ users[2].balance = 200

\* C8: under any interleaving of concurrent handleReferral calls for the
\* same ordered pair, at most one ReferralRecord exists for the pair and each
\* side is rewarded (+200/+20) at most once in total.
C8_AtMostOneReward ==
  \A p \in Pairs :
    /\ referrals[p] <= 1
    /\ rewarded[p].referrer <= 1
    /\ rewarded[p].referred <= 1

\* C9: a claim whose decoded referrer id equals the referred user's id is
\* rejected before any store call: the task has returned at the self-referral
\* check having made no store call, roff_users and roff_referrals are as they
\* were when the call started, and no record of a user referring themselves
\* exists.
C9_SelfReferralRejected ==
  /\ \A i \in Ids : referrals[<<i, i>>] = 0
  /\ \A t \in DOMAIN tasks :
       ( /\ tasks[t].op = "referral"
         /\ tasks[t].req.code # <<>>
         /\ ~ParseInt36(tasks[t].req.code).nan
         /\ ParseInt36(tasks[t].req.code).val = tasks[t].req.from )
       => /\ tasks[t].pc = "done"
          /\ tasks[t].resp = [returned |-> "self"]
          /\ tasks[t].nCalls = 0
          /\ users = tasks[t].req.pre.users
          /\ referrals = tasks[t].req.pre.referrals

\* C9 witness: user 2 claims the code "02", which decodes to 2, after an
\* earlier claim has been rewarded.
C9_Witness ==
  \E t \in DOMAIN tasks :
    /\ tasks[t].op = "referral"
    /\ tasks[t].pc = "done"
    /\ tasks[t].req.code = <<"0", "2">>
    /\ tasks[t].req.from = 2
    /\ tasks[t].resp = [returned |-> "self"]
    /\ \E p \in Pairs : referrals[p] = 1

\* C10: when the same successful_payment message for a known bundle has been
\* handled a second time (no store call failing, the buyer's row present),
\* the grant has been written exactly once: the second handling has left the
\* buyer's balance, spins_left and golden_tickets as it found them.
C10_PaymentReplayAppliesOnce ==
  \A t \in DOMAIN tasks :
    ( /\ tasks[t].op = "payment"
      /\ tasks[t].pc = "done"
      /\ tasks[t].req.replay
      /\ ~anyFail
      /\ tasks[t].req.payload.kind = "object"
      /\ tasks[t].req.payload.item_type = "bundle"
      /\ tasks[t].req.payload.item_id \in BundleIds
      /\ HasUser(tasks[t].loc.telegramId) )
    => LET id == tasks[t].loc.telegramId
           before == tasks[t].req.pre.users[id] IN
         /\ granted[tasks[t].req.charge] = 1
         /\ users[id].balance = before.balance
         /\ users[id].spins_left = before.spins_left
         /\ users[id].golden_tickets = before.golden_tickets

\* The catalog of the specification: the paid tiers, the skins and the
\* three bundles, with their prices.
CatalogItem(item_type, item_id) ==
  \/ item_type = "tier" /\ item_id \in {"plus", "pro", "prem"}
  \/ item_type \in {"wheel", "bg"}
  \/ item_type = "bundle" /\ item_id \in {"mini", "medi", "maxi"}

\* C11: a pre-checkout query whose payload decodes to an object is answered
\* ok=true only when the item is a catalog item and total_amount equals its
\* price; an unknown item or another amount is answered ok=false.
C11_ApprovesOnlyCatalogPrice ==
  \A t \in DOMAIN tasks :
    ( /\ tasks[t].op = "precheckout"
      /\ tasks[t].pc = "done"
      /\ tasks[t].req.invoice_payload.kind = "object" )
    => LET pl == tasks[t].req.invoice_payload IN
         tasks[t].resp.ok
           <=> ( /\ CatalogItem(pl.item_type, pl.item_id)
                 /\ Num(tasks[t].req.total_amount) = getStarsPrice(pl.item_type, pl.item_id) )

\* The answerPreCheckoutQuery requests the webhook handler in frame w has
\* issued while handling its update.
AnswerCalls(w) ==
  Cardinality({i \in DOMAIN tasks[w].loc.log :
                 /\ tasks[w].loc.log[i].op = "precheckout"
                 /\ tasks[w].loc.log[i].nCalls = 1})

PreCheckoutHandled(w) ==
  /\ tasks[w].op = "webhook"
  /\ tasks[w].pc = "done"
  /\ tasks[w].req.kind = "pre_checkout_query"

\* C12 (as stated): for every update carrying pre_checkout_query that
\* reaches the webhook, exactly one answerPreCheckoutQuery call has been
\* issued when the handler is done.
C12_EveryQueryAnsweredOnce ==
  PreCheckoutHandled(WebhookFrame) => AnswerCalls(WebhookFrame) = 1

\* C12 (amended): for every update carrying pre_checkout_query that passes
\* the secret-token check, exactly one answerPreCheckoutQuery call has been
\* issued when the handler is done, whether or not the payload decodes or
\* the price matches; an update that fails the token check is answered 403
\* and no answerPreCheckoutQuery call is issued for it.
C12_AcceptedQueryAnsweredOnce ==
  PreCheckoutHandled(WebhookFrame) =>
    /\ \A i \in DOMAIN tasks[WebhookFrame].loc.log :
         tasks[WebhookFrame].loc.log[i].nCalls <= 1
    /\ AnswerCalls(WebhookFrame) = (IF tasks[WebhookFrame].req.token_ok THEN 1 ELSE 0)

C12_Witness ==
  /\ PreCheckoutHandled(WebhookFrame)
  /\ tasks[WebhookFrame].req.token_ok
  /\ tasks[WebhookFrame].req.invoice_payload = NotJson
  /\ AnswerCalls(WebhookFrame) = 1

\* The handler in frame w has accepted an update and has not answered yet.
InFlight(w) == tasks[w].op = "webhook" /\ tasks[w].pc # "done"

Acknowledged(w) ==
  /\ tasks[w].op = "webhook"
  /\ tasks[w].pc = "done"
  /\ tasks[w].resp.status = 200
  /\ tasks[w].loc.responses = 1

\* C16: every webhook update accepted by the secret-token check is
\* eventually acknowledged with exactly one HTTP 200 response: a handler in
\* flight never has sent a response, a handler that is done with an accepted
\* update has sent exactly one, with status 200, and every handler in flight
\* gets there, whatever failed or was thrown inside.
C16_AlwaysAcknowledged ==
  /\ [](InFlight(WebhookFrame) => tasks[WebhookFrame].loc.responses = 0)
  /\ []( ( /\ tasks[WebhookFrame].op = "webhook"
           /\ tasks[WebhookFrame].pc = "done"
           /\ tasks[WebhookFrame].req.token_ok )
         => Acknowledged(WebhookFrame) )
  /\ (InFlight(WebhookFrame) ~> Acknowledged(WebhookFrame))

\* A payment handler that threw (payload null), and a 200 all the same.
C16_Witness ==
  /\ Acknowledged(WebhookFrame)
  /\ \E i \in DOMAIN tasks[WebhookFrame].loc.log :
       tasks[WebhookFrame].loc.log[i].returned = "thrown"

\* Task t has finished the second of two successive identical
\* /inventory/unlock requests, the first of which started with the item
\* not owned.
UnlockedTwice(t) ==
  /\ tasks[t].op = "unlock"
  /\ tasks[t].pc = "done"
  /\ tasks[t].req.replay
  /\ ~UnlockMissing(tasks[t].req.tg_id, tasks[t].req.item_type, tasks[t].req.item_id)
  /\ tasks[t].req.prev.pre[UnlockItem(tasks[t])] = 0

FalseThenTrue(t) ==
  /\ tasks[t].req.prev.resp = Resp(200, [ok |-> TRUE, alreadyOwned |-> FALSE])
  /\ tasks[t].resp = Resp(200, [ok |-> TRUE, alreadyOwned |-> TRUE])
  /\ inventory[UnlockItem(tasks[t])] = 1

C14_AtMostOneItem ==
  /\ \A item \in Items : inventory[item] <= 1
  /\ \A t \in DOMAIN tasks :
       ( /\ tasks[t].op = "unlock"
         /\ tasks[t].pc = "done"
         /\ tasks[t].loc # Nil
         /\ tasks[t].loc.insert = "duplicate" )
       => tasks[t].resp = Resp(200, [ok |-> TRUE, alreadyOwned |-> TRUE])

\* C15: when operations that lazily create the account of one id run
\* concurrently, one row survives and every operation that saw no row still
\* completes against it: with no store failure, no request that went
\* through getOrCreateUser is answered with a server error.
C15_MissesComplete ==
  \A t \in DOMAIN tasks :
    ( /\ tasks[t].op \in GocCallers
      /\ tasks[t].pc = "done"
      /\ ~anyFail )
    => tasks[t].resp.status # 500

\* free < plus < pro < prem
TierRank(tier) ==
  CASE tier = "free" -> 0 [] tier = "plus" -> 1 [] tier = "pro" -> 2
    [] tier = "prem" -> 3 [] OTHER -> 0 - 1

\* A confirmed payment for tier `tier` of account id has been written.
TierPaid(id, tier) ==
  \E c \in Charges :
    /\ granted[c] >= 1
    /\ PaymentMsg(c).payload.kind = "object"
    /\ PaymentMsg(c).payload.item_type = "tier"
    /\ PaymentMsg(c).payload.item_id = tier
    /\ TelegramId(PaymentMsg(c).payload.tg_id, PaymentMsg(c).from) = id

\* C17: an account's tier is always one of free, plus, pro, prem, is never
\* lower than the tier the account started with, and differs from it only
\* when a payment for the new tier has been confirmed for the account.
C17_TierOnlyUpByPayment ==
  \A id \in Ids :
    (HasUser(id) /\ users0[id] # NoRow) =>
      /\ users[id].premium_tier \in TierNames
      /\ TierRank(users[id].premium_tier) >= TierRank(users0[id].premium_tier)
      /\ ( users[id].premium_tier # users0[id].premium_tier
             => TierPaid(id, users[id].premium_tier) )

\* C18: in every reachable state every account's balance and golden_tickets
\* are non-negative (the model's numbers are integers).
C18_NonNegative ==
  \A id \in Ids :
    HasUser(id) => (users[id].balance >= 0 /\ users[id].golden_tickets >= 0)

\* The call of handleReferral in task t has inserted the pair's record and
\* has returned.
RecordInserted(t) ==
  /\ tasks[t].op = "referral"
  /\ tasks[t].pc = "done"
  /\ tasks[t].resp.returned = "rewarded"
  /\ referrals[RefPair(tasks[t])] = tasks[t].req.pre.referrals[RefPair(tasks[t])] + 1

\* Account id holds 200 more than when the call in task t started.
Credited(t, id) ==
  /\ HasUser(id)
  /\ users[id].balance =
       (IF tasks[t].req.pre.users[id] = NoRow THEN 0
        ELSE tasks[t].req.pre.users[id].balance) + 200

\* C19: once handleReferral has inserted the record and returned, each of
\* the two sides has been credited or rewardUser has logged an error for it.
C19_CreditedOrLogged ==
  \A t \in DOMAIN tasks :
    RecordInserted(t) =>
      /\ Credited(t, tasks[t].loc.referrerId) \/ 1 \in tasks[t].loc.logged
      /\ Credited(t, tasks[t].loc.referredId) \/ 2 \in tasks[t].loc.logged

\* The ReferralRecords whose referrer is account id.
RecordsOf(id) ==
  LET RECURSIVE Sum(_)
      Sum(S) == IF S = {} THEN 0
                ELSE LET j == CHOOSE x \in S : TRUE IN
                       referrals[<<id, j>>] + Sum(S \ {j})
  IN Sum(Ids)

\* C20: in every quiescent state each account's invites equals the number
\* of ReferralRecords that name it as referrer (stated here for runs in
\* which no store call failed).
C20_InvitesCountRecords ==
  (Quiescent /\ ~anyFail) =>
    \A id \in Ids : HasUser(id) => users[id].invites = RecordsOf(id)

\* The multiplier the claim gives for a request value: n for a number in
\* [n, n+1) with n one of 1, 5, 10, 20, 50, and 1 for everything else.
ClaimTurbo(v) ==
  IF v.type = "number" /\ \E n \in {1, 5, 10, 20, 50} : v.tenths \in (10 * n) .. (10 * n + 9)
    THEN CHOOSE n \in {1, 5, 10, 20, 50} : v.tenths \in (10 * n) .. (10 * n + 9)
    ELSE 1

\* The /spin request of task t has got past the choice of its multiplier.
TurboChosen(t) ==
  /\ tasks[t].op = "spin"
  /\ tasks[t].pc \in {"spin_update", "done"}
  /\ tasks[t].nUpdates = 1 \/ tasks[t].pc = "spin_update"

\* C21: the effective turbo multiplier of a spin is the floored turboMult
\* when that is one of 1, 5, 10, 20, 50 and 1 for every other input; no
\* request is answered 400 for its multiplier, and no_spins is answered by
\* comparing spins_left with that effective multiplier.
C21_TurboCoercedToOne ==
  \A t \in DOMAIN tasks :
    /\ TurboChosen(t) => tasks[t].loc.turbo = ClaimTurbo(tasks[t].req.turboMult)
    /\ ( tasks[t].op = "spin" /\ tasks[t].pc = "done" /\ tasks[t].resp.status = 400 )
         => tasks[t].req.tg_id = 0
    /\ ( tasks[t].op = "spin" /\ tasks[t].pc = "done"
         /\ tasks[t].resp = Err(200, "no_spins") )
         => tasks[t].loc.user.spins_left < ClaimTurbo(tasks[t].req.turboMult)

\* turboMult 5.5 spins with multiplier 5, and turboMult 7 with multiplier 1.
C21_Witness ==
  \E t \in DOMAIN tasks :
    /\ TurboChosen(t)
    /\ tasks[t].pc = "done"
    /\ tasks[t].resp.status = 200
    /\ tasks[t].req.turboMult \in {NumTenths(55), Num(7)}
    /\ tasks[t].loc.turbo = ClaimTurbo(tasks[t].req.turboMult)

\* Task t has finished a first-time valid referral claim between two
\* accounts that both existed when the call started, with no store failure.
FirstClaim(t) ==
  /\ ValidClaim(tasks[t])
  /\ tasks[t].pc = "done"
  /\ ~anyFail
  /\ tasks[t].req.pre.referrals[ClaimPair(tasks[t])] = 0
  /\ tasks[t].req.pre.users[ClaimPair(tasks[t])[1]] # NoRow
  /\ tasks[t].req.pre.users[ClaimPair(tasks[t])[2]] # NoRow

\* C22: a first-time referral claim between two existing accounts, every
\* store call succeeding and nothing else running, inserts the record, adds
\* +200 balance and +20 spins_left to both accounts and +1 invites to the
\* referrer only, and changes nothing else in the two rows.
C22_RewardDelta ==
  \A t \in DOMAIN tasks :
    FirstClaim(t) =>
      LET referrer == ClaimPair(tasks[t])[1]
          referred == ClaimPair(tasks[t])[2]
          before == tasks[t].req.pre.users IN
        /\ tasks[t].resp = [returned |-> "rewarded"]
        /\ referrals[ClaimPair(tasks[t])] = 1
        /\ users[referrer] = [before[referrer] EXCEPT !.balance = @ + 200,
                                                      !.spins_left = @ + 20,
                                                      !.invites = @ + 1]
        /\ users[referred] = [before[referred] EXCEPT !.balance = @ + 200,
                                                      !.spins_left = @ + 20]

C22_Witness ==
  \E t \in DOMAIN tasks :
    /\ FirstClaim(t)
    /\ tasks[t].resp = [returned |-> "rewarded"]
    /\ tasks[t].nUpdates = 2
    /\ users[ClaimPair(tasks[t])[1]].invites = 1
    /\ users[ClaimPair(tasks[t])[2]].invites = 0

\* C23: a referral reward credited to an account that has no row yet leaves
\* the account as getOrCreateUser followed by the reward would: the default
\* row (balance 0, spins_left 20, tier free, invites 0) plus the reward,
\* that is balance 200 and spins_left 40.
C23_RewardOnDefaultRow ==
  \A t \in DOMAIN tasks :
    ( /\ ValidClaim(tasks[t])
      /\ tasks[t].pc = "done"
      /\ ~anyFail
      /\ tasks[t].resp = [returned |-> "rewarded"]
      /\ tasks[t].req.pre.referrals[ClaimPair(tasks[t])] = 0
      /\ tasks[t].req.pre.users[ClaimPair(tasks[t])[2]] = NoRow )
    => users[ClaimPair(tasks[t])[2]] =
         [DefaultUser EXCEPT !.balance = @ + 200, !.spins_left = @ + 20]

\* C24: a reward has been credited for a referral pair only if the pair's
\* ReferralRecord exists: a failed insert of the record is followed by no
\* account write.
C24_RewardImpliesRecord ==
  \A p \in Pairs :
    (rewarded[p].referrer >= 1 \/ rewarded[p].referred >= 1) => referrals[p] >= 1

\* The price table of the claim: 0 stands for "no price".
ClaimPrice(item_type, item_id) ==
  CASE item_type = "tier" /\ item_id = "plus" -> 700
    [] item_type = "tier" /\ item_id = "pro" -> 1400
    [] item_type = "tier" /\ item_id = "prem" -> 2100
    [] item_type \in {"wheel", "bg"} -> 299
    [] item_type = "bundle" /\ item_id = "mini" -> 299
    [] item_type = "bundle" /\ item_id = "medi" -> 599
    [] item_type = "bundle" /\ item_id = "maxi" -> 1199
    [] OTHER -> 0

\* Task t holds a /stars/create-invoice request with all three fields.
InvoiceAsked(t) ==
  /\ tasks[t].op = "invoice"
  /\ ~InvoiceMissing(tasks[t].req.tg_id, tasks[t].req.item_type, tasks[t].req.item_id)

\* The request of task t has been refused before any call to Telegram.
NoInvoice(t) ==
  /\ tasks[t].pc = "done"
  /\ tasks[t].resp = Err(400, "invalid_price")
  /\ tasks[t].nCalls = 0

\* C25 (as stated): getStarsPrice returns the table's price for the catalog
\* items and 0 for every other (item_type, item_id), and
\* /stars/create-invoice creates no invoice when the price is 0.
C25_PriceLookupZero ==
  \A t \in DOMAIN tasks :
    InvoiceAsked(t) =>
      LET price == getStarsPrice(tasks[t].req.item_type, tasks[t].req.item_id) IN
        /\ price = Num(ClaimPrice(tasks[t].req.item_type, tasks[t].req.item_id))
        /\ price = Num(0) => NoInvoice(t)

\* C25 (amended): getStarsPrice returns the table's price for the catalog
\* items; for every other (item_type, item_id) it returns 0, or undefined
\* when item_type is bundle and item_id names a property that BUNDLE_CONFIG
\* inherits (such as constructor); /stars/create-invoice creates no invoice
\* when the price is 0 or undefined, and asks Telegram for one with the
\* table's price otherwise.
C25_PriceLookupFalsy ==
  \A t \in DOMAIN tasks :
    InvoiceAsked(t) =>
      LET item_type == tasks[t].req.item_type
          item_id == tasks[t].req.item_id
          price == getStarsPrice(item_type, item_id) IN
        /\ ClaimPrice(item_type, item_id) > 0 =>
             /\ price = Num(ClaimPrice(item_type, item_id))
             /\ tasks[t].loc # Nil
             /\ tasks[t].loc.amountStars = price
        /\ ClaimPrice(item_type, item_id) = 0 =>
             /\ price = (IF item_type = "bundle" /\ item_id \in InheritedKeys
                           THEN Undefined ELSE Num(0))
             /\ NoInvoice(t)

C25_Witness ==
  \E t \in DOMAIN tasks :
    /\ InvoiceAsked(t)
    /\ tasks[t].req.item_type = "bundle"
    /\ tasks[t].req.item_id = "constructor"
    /\ getStarsPrice("bundle", "constructor") = Undefined
    /\ NoInvoice(t)

\* Task t has finished handling a confirmed payment for a known bundle, and
\* no store call has failed.
BundlePaid(t) ==
  /\ tasks[t].op = "payment"
  /\ tasks[t].pc = "done"
  /\ ~anyFail
  /\ tasks[t].req.payload.kind = "object"
  /\ tasks[t].req.payload.item_type = "bundle"
  /\ tasks[t].req.payload.item_id \in BundleIds

\* C26: after a confirmed payment for a known bundle whose store calls all
\* succeed, for any buyer, with or without an account row, the buyer's
\* stored balance, spins_left and golden_tickets equal the value before
\* the payment (0 if absent) plus the bundle's rof, spins and tickets,
\* written by one update.
C26_BundleGrantStored ==
  \A t \in DOMAIN tasks :
    BundlePaid(t) =>
      LET id == tasks[t].loc.telegramId
          before == tasks[t].req.pre.users[id]
          cfg == BUNDLE_CONFIG(tasks[t].req.payload.item_id) IN
        /\ tasks[t].nUpdates = 1
        /\ HasUser(id)
        /\ users[id].balance = (IF before = NoRow THEN 0 ELSE before.balance) + cfg.rof
        /\ users[id].spins_left =
             (IF before = NoRow THEN 0 ELSE before.spins_left) + cfg.spins
        /\ users[id].golden_tickets =
             (IF before = NoRow THEN 0 ELSE before.golden_tickets) + cfg.tickets

\* C27: handleSuccessfulPayment sends the confirmation message only if the
\* grant of that payment has been persisted: after a failed tier update,
\* inventory insert or bundle read/update, or for an unknown bundle id, no
\* message is sent.
C27_ConfirmationOnlyIfGranted ==
  \A t \in DOMAIN tasks :
    ( /\ tasks[t].op = "payment"
      /\ tasks[t].pc = "done"
      /\ tasks[t].resp.returned = "sent" )
    => granted[tasks[t].req.charge] >= 1

\* The spin credits spent by the /spin request of task t, once it has
\* answered ok:true.
SpentBy(t) ==
  IF tasks[t].op = "spin" /\ tasks[t].pc = "done" /\ tasks[t].upd = "ok"
    THEN tasks[t].loc.turbo ELSE 0

\* The spin credits account id starts with: those of its row, or the 20 of
\* the default row.
StartingSpins(id) ==
  IF users0[id] = NoRow THEN 20
  ELSE IF users0[id].spins_left > 0 THEN users0[id].spins_left ELSE 0

\* C28: when two /spin requests on account 1 are the only requests made, in
\* any interleaving, the turbo multipliers of those answered ok:true add up
\* to no more than the spins_left the account started with.
C28_NoDoubleSpend ==
  ( /\ started = 2
    /\ \A t \in DOMAIN tasks : tasks[t].op = "spin" /\ tasks[t].req.tg_id = 1 )
  => SpentBy(1) + SpentBy(2) <= StartingSpins(1)

\* The pre-checkout query in flight or answered carries the payload of the
\* invoice /stars/create-invoice has issued.
QueryOnIssued ==
  /\ Issued(tasks[InvoiceFrame])
  /\ tasks[QueryFrame].op = "precheckout"
  /\ tasks[QueryFrame].pc \in {"pre_answer", "done"}
  /\ tasks[QueryFrame].req.invoice_payload =
       tasks[InvoiceFrame].resp.body.invoice_link.payload

\* C29: for an invoice /stars/create-invoice has issued with amount A, the
\* answer handlePreCheckout sends to a pre-checkout query carrying that
\* invoice's payload has ok = true exactly when total_amount = A.
C29_InvoiceAndPreCheckoutAgree ==
  QueryOnIssued =>
    LET A == tasks[InvoiceFrame].resp.body.invoice_link.amount
        q == tasks[QueryFrame] IN
      /\ q.loc.ok <=> (Num(q.req.total_amount) = A)
      /\ q.pc = "done" => (q.resp.ok <=> (Num(q.req.total_amount) = A))

\* C29 witness: a bundle invoice has been issued and a query on it with the
\* price of a tier instead has been answered ok = false.
C29_Witness ==
  /\ QueryOnIssued
  /\ tasks[InvoiceFrame].req.item_type = "bundle"
  /\ tasks[QueryFrame].req.total_amount = 700
  /\ tasks[QueryFrame].pc = "done"
  /\ tasks[QueryFrame].resp.returned = "answered"
  /\ ~tasks[QueryFrame].resp.ok

\* The webhook request in the handler frame came with a wrong or missing
\* secret token while one is configured.
BadToken(r) == r.op = "webhook" /\ ~r.req.token_ok

\* C30: a webhook request with a wrong or missing secret token is answered
\* 403 in the step that receives it; that step leaves the store and the
\* record of grants and rewards as they were, the request makes no outbound
\* call and awaits none of the handlers, and no handler runs for it.
C30_BadTokenNoEffect ==
  /\ [](BadToken(tasks[WebhookFrame]) =>
          /\ tasks[WebhookFrame].pc = "done"
          /\ tasks[WebhookFrame].resp.status = 403
          /\ tasks[WebhookFrame].loc.responses = 1
          /\ tasks[WebhookFrame].loc.log = <<>>
          /\ tasks[WebhookFrame].nCalls = 0
          /\ tasks[WebhookFrame].nUpdates = 0
          /\ tasks[CalleeFrame] = IdleTask)
  /\ [][(BadToken(tasks'[WebhookFrame]) /\ tasks'[WebhookFrame] # tasks[WebhookFrame])
          => /\ users' = users
             /\ referrals' = referrals
             /\ inventory' = inventory
             /\ granted' = granted
             /\ rewarded' = rewarded
             /\ ledger' = ledger]_vars

\* C30 witness: a payment update that would have granted a tier has been
\* turned away with 403.
C30_Witness ==
  /\ BadToken(tasks[WebhookFrame])
  /\ tasks[WebhookFrame].pc = "done"
  /\ tasks[WebhookFrame].resp.status = 403
  /\ tasks[WebhookFrame].req.charge = "ch1"
  /\ granted = NoCounts(Charges)

====
